---- MODULE Spec2Model ----
(***************************************************************************)
(* Page-traversal and extraction control loops of the scraper, with their  *)
(* failure-recovery policy:                                                *)
(*   - the Navigation Guard   (scripts/interfaces.py, safe_goto)           *)
(*   - the numbered-page orchestrator (main.py, run_scrapper)              *)
(*   - the infinite-scroll loader (scroll_and_load_items)                  *)
(*   - the checkpointed multi-category run (zara_parser/api.py)            *)
(*   - the extractor loops (parse_elements, parse_category)                *)
(*   - the read-merge-write file store (save_to_file)                      *)
(* Each component has its own specification; the variables of the other    *)
(* components stay at their idle values.                                   *)
(***************************************************************************)
EXTENDS Integers, Sequences, FiniteSets, TLC

VARIABLES
    \* ---- safe_goto (one call) ----
    nav_pc,          \* "idle" | "loop" | "returned"
    nav_iface,       \* which class's safe_goto: "farfetch" | "zara"
    nav_paged,       \* TRUE iff "page=" occurs in the url argument
    nav_script,      \* what the site answers to the successive page.goto calls
    attempt,         \* the loop variable of `for attempt in range(max_retries)`
    nav_log,         \* the answers consumed so far, one per page.goto call
    nav_sleeps,      \* the time.sleep calls so far, in order: <<kind, seconds>>
    nav_result,      \* "none" | "true" | "false" | "raised"
    browser_inits,   \* number of _init_browser calls on the interface object
    \* ---- main.py run_scrapper ----
    m_pc,            \* "off" | "started" | "category" | "pages" | "done" | "aborted"
    cat,             \* 1-based position in zip(urls, categories)
    pages,           \* what get_number_of_pages returned for this category
    site_empty,      \* site_empty[p]: get_elements returns no link for page p
    page,            \* the loop variable of `for page in range(1, pages + 1)`
    consecutive_empty_pages,
    fetched,         \* pages passed to get_elements for this category, in order
    left_by,         \* how the page loop of this category was left
    file,            \* <gender>_collection.json: the list of records in it
    mongo,           \* the urls stored in <gender>_collection
    closed,          \* number of driver.close() calls
    listing,         \* how the listing page of the category and its label turned out
    last_why,        \* how get_elements went for the page fetched last
    fail_run,        \* how many pages in a row, up to the last one, failed
    \* ---- ZaraPlaywrightInterface.scroll_and_load_items (one call) ----
    s_pc,            \* "off" | "call" | "loop" | "returned" | "raised"
    items_limit,     \* self.items_limit
    all_links,       \* the links held (the list built from current_links)
    previous_count,
    no_new_items_count,
    scrolls,         \* scroll iterations started so far
    seen_links,      \* every distinct link the DOM has shown so far
    last_new,        \* the last iteration that showed a link not seen before
    dom_shrank,      \* TRUE once the DOM dropped a link it showed before
    s_result,        \* the set of links returned ({} until then)
    \* ---- zara_parser/api.py parse_multiple_categories ----
    mc_pc,           \* "off" | "idle" | "running" | "returned"
    ckpt,            \* zara_parsing_progress.json
    mc_categories,   \* the local `categories` (replaced on resume)
    mc_i,            \* the loop variable i (0-based)
    all_products,
    successful_categories,
    failed_categories,
    runs,            \* runs started so far
    mc_resumed,      \* this run was started with resume=True
    start_index,
    restored,        \* the products this run started with
    passed,          \* the list the caller passed to this run
    processed,       \* 0-based positions this run has processed, in order
    outcomes,        \* how each of them went: "products" | "none" | "raised"
    found,           \* how many products each of them yielded
    ckpt_at_start,   \* the checkpoint file as it was when this run began
    \* ---- the extractor loops: parse_elements / parse_category ----
    ex_pc,           \* "off" | "loop" | "returned"
    ex_path,         \* "browser" (parse_elements) | "api" (parse_category)
    ex_refs,         \* the product references handed to the loop
    ex_i,            \* references the loop has gone through
    ex_data,         \* the list being built (data / parsed_products)
    \* ---- save_to_file on one path ----
    fs_file,         \* the file: whether it exists, and the list in it
    fs_initial,      \* the list in it before the first call
    fs_calls,        \* the data argument of each call so far, in call order
    \* ---- the document store: MongoInterface ----
    db_pc,           \* "off" | "start" | "ready"
    db_exists,       \* the collection exists
    db_indexed,      \* it has the unique index on url
    db_docs,         \* the urls of the stored documents, in insertion order
    db_inserts,      \* the urls handed to insert_data, in call order
    db_dup_caught,   \* DuplicateKeyError conditions insert_data has caught
    db_file,         \* the urls of the records in <gender>_collection.json
    \* ---- the browser pipeline of one category: what it sleeps and loads ----
    pl_pc,           \* "off" | "start" | "pages" | "links" | "done"
    pl_pages,        \* what get_number_of_pages returned
    pl_page,         \* the page the loop is at
    pl_links,        \* links get_elements found on it
    pl_i,            \* index of the link parse_elements is at (from 0)
    pl_trace,        \* the request_delay sleeps and page.goto calls, in order
    \* ---- zara_parser/api.py: get_category_products and _retry_request ----
    api_pc,          \* "off" | "start" | "lookup" | "products" | "returned"
    api_limit,       \* items_limit (0: none)
    api_calls,       \* the endpoints requested by this call, in order
    api_info,        \* what the category lookup gave
    api_result,      \* the list get_category_products returns
    rr_fn,           \* the function the running _retry_request wraps
    rr_attempt,      \* its loop variable
    rr_answers,      \* how each call of the wrapped function went
    rr_sleeps,       \* what it has slept
    rr_state,        \* "idle" | "running" | "returned" | "raised"
    rr_value,        \* the value it returned
    \* ---- zara_api_parser.py: get_category_products ----
    zf_pc,           \* "off" | "start" | "session" | "answered" | "returned"
    zf_limit,        \* self.items_limit
    zf_reply,        \* how the listing request went
    zf_requests,     \* the requests sent by this call, in order
    zf_result,       \* the list get_category_products returns
    \* ---- zara_api_parser.py: parse_product (one call) ----
    pr_pc,           \* "off" | "call" | "returned"
    pr_data,         \* product_data
    pr_country,
    pr_lang,
    pr_record,       \* what parse_product returns
    \* ---- main_zara.py run_scrapper ----
    z_pc,            \* "off" | "category" | "parsing" | "done"
    z_cat,           \* 1-based position in categories
    z_products,      \* what get_category_products returned for it
    z_i,             \* products parse_category's loop has gone through
    z_parsed,        \* parsed_products: extracted and not yet saved
    z_file,          \* zara_<gender>_collection.json: the list in it
    z_offered,       \* the records handed to insert_data, in call order
    z_fetched,       \* the products fetched for each category so far
    z_outcome,       \* how each category left so far ended
    \* ---- the proxy rotation manager ----
    px_pc,           \* "off" | "ready"
    px_proxies,      \* proxies
    px_index,        \* current_index (0-based)
    px_failed,       \* failed: the blacklist
    px_last,         \* the last call of next(): what it met and returned
    \* ---- parse_category: the category url ----
    up_pc,           \* "off" | "call" | "parsed"
    up_parser,       \* whose parse_category: "zara_api_parser" | "zara_parser/api"
    up_url,          \* category_url
    up_result,       \* the category_id it goes on with, if any
    \* ---- the command line of zara_parser/api_en.py ----
    cli_pc,          \* "off" | "start" | "chosen" | "done"
    cli_argv,        \* the options on the command line
    cli_mode,        \* the branch of the main block taken
    cli_categories,  \* the categories handed to the parser, in order
    cli_resume       \* the resume argument handed on

navVars == <<nav_pc, nav_iface, nav_paged, nav_script, attempt, nav_log,
             nav_sleeps, nav_result, browser_inits>>

mainVars == <<listing, m_pc, cat, pages, site_empty, page, consecutive_empty_pages,
              fetched, left_by, file, mongo, closed, last_why, fail_run>>

scrollVars == <<s_pc, items_limit, all_links, previous_count, no_new_items_count,
                scrolls, seen_links, last_new, dom_shrank, s_result>>

multiVars == <<mc_pc, ckpt, mc_categories, mc_i, all_products,
               successful_categories, failed_categories, runs, mc_resumed,
               start_index, restored, passed, processed, outcomes, found, ckpt_at_start>>

extractVars == <<ex_pc, ex_path, ex_refs, ex_i, ex_data>>

fileVars == <<fs_file, fs_initial, fs_calls>>

storeVars == <<db_pc, db_exists, db_indexed, db_docs, db_inserts, db_dup_caught,
               db_file>>

pipeVars == <<pl_pc, pl_pages, pl_page, pl_links, pl_i, pl_trace>>

\* The components added after the first six, and the first six.
apiVars == <<api_pc, api_limit, api_calls, api_info, api_result,
             rr_fn, rr_attempt, rr_answers, rr_sleeps, rr_state, rr_value>>

fetchVars == <<zf_pc, zf_limit, zf_reply, zf_requests, zf_result>>

\* The components of the API pipeline of main_zara.py.
productVars == <<pr_pc, pr_data, pr_country, pr_lang, pr_record>>

zaraVars == <<z_pc, z_cat, z_products, z_i, z_parsed, z_file, z_offered,
              z_fetched, z_outcome>>

proxyVars == <<px_pc, px_proxies, px_index, px_failed, px_last>>

urlVars == <<up_pc, up_parser, up_url, up_result>>

cliVars == <<cli_pc, cli_argv, cli_mode, cli_categories, cli_resume>>

lateVars == <<fetchVars, productVars, zaraVars, proxyVars, urlVars, cliVars>>

restVars == <<storeVars, pipeVars, apiVars, lateVars>>

coreVars == <<navVars, mainVars, scrollVars, multiVars, extractVars, fileVars>>

\* Everything outside one of the later components.
besideStore == <<coreVars, pipeVars, apiVars, lateVars>>

besidePipe == <<coreVars, storeVars, apiVars, lateVars>>

besideApi == <<coreVars, storeVars, pipeVars, lateVars>>

earlyVars == <<coreVars, storeVars, pipeVars, apiVars>>

besideFetch == <<earlyVars, productVars, zaraVars, proxyVars, urlVars, cliVars>>

besideProduct == <<earlyVars, fetchVars, zaraVars, proxyVars, urlVars, cliVars>>

besideZara == <<earlyVars, fetchVars, productVars, proxyVars, urlVars, cliVars>>

besideProxy == <<earlyVars, fetchVars, productVars, zaraVars, urlVars, cliVars>>

besideCli == <<earlyVars, fetchVars, productVars, zaraVars, proxyVars, urlVars>>

besideUrl == <<earlyVars, fetchVars, productVars, zaraVars, proxyVars, cliVars>>

vars == <<coreVars, restVars>>

(***************************************************************************)
(* Generic helpers                                                         *)
(***************************************************************************)
Range(s) == {s[i] : i \in 1..Len(s)}

SeqsUpTo(S, n) == UNION {[1..k -> S] : k \in 0..n}

SeqsOfLen(S, n) == [1..n -> S]

Last(s) == s[Len(s)]

(***************************************************************************)
(* Navigation Guard: PlaywrightInterface.safe_goto and                     *)
(* ZaraPlaywrightInterface.safe_goto                                       *)
(***************************************************************************)
max_retries == 3

\* ZaraPlaywrightInterface: the wait after a page has loaded, in seconds.
page_loading_time == 3

RateLimitWait == 60

\* Bounds of the randomized pre-request delay (request_delay default).
RequestDelayMin == 24
RequestDelayMax == 60

\* Length of the answer script given to one call.
MaxScript == 4

\* What one page.goto call can meet.  status 0 stands for "no response
\* object" (page.goto returned None); raises = page.goto itself raised;
\* items = "items.aspx" occurs in page.url afterwards; marker = the
\* readiness selector appeared within its timeout.
Answer(raises, status, items, marker) ==
    [raises |-> raises, status |-> status, items |-> items, marker |-> marker]

Answers ==
    { Answer(FALSE, 200, TRUE, TRUE),      \* a good page
      Answer(FALSE, 0, TRUE, TRUE),        \* no response object, page is fine
      Answer(FALSE, 429, TRUE, TRUE),      \* rate limited
      Answer(FALSE, 404, TRUE, TRUE),      \* another HTTP error
      Answer(FALSE, 200, FALSE, TRUE),     \* landed somewhere else
      Answer(FALSE, 200, TRUE, FALSE),     \* readiness marker never appears
      Answer(TRUE, 0, TRUE, TRUE) }        \* navigation error / timeout

\* A mutant: the generic status test comes first, so a 429 is an HTTP error.
AttemptBranchStatusFirst(iface, paged, a) ==
    IF a.raises THEN "exception"
    ELSE IF a.status >= 400 THEN "http_error"
    ELSE IF a.status = 429 THEN "rate_limit"
    ELSE IF iface = "farfetch" /\ ~a.items /\ paged THEN "redirect"
    ELSE IF iface = "farfetch" /\ ~a.marker THEN "exception"
    ELSE "success"

\* A mutant: landing on another URL raises like a missing readiness
\* marker, so it is retried.
AttemptBranchRedirectRetries(iface, paged, a) ==
    IF a.raises THEN "exception"
    ELSE IF a.status = 429 THEN "rate_limit"
    ELSE IF a.status >= 400 THEN "http_error"
    ELSE IF iface = "farfetch" /\ ~a.items /\ paged THEN "exception"
    ELSE IF iface = "farfetch" /\ ~a.marker THEN "exception"
    ELSE "success"

\* The branch of the loop body that an answer takes.
AttemptBranch(iface, paged, a) ==
    IF a.raises THEN "exception"
    ELSE IF a.status = 429 THEN "rate_limit"
    ELSE IF a.status >= 400 THEN "http_error"
    ELSE IF iface = "farfetch" /\ ~a.items /\ paged THEN "redirect"
    ELSE IF iface = "farfetch" /\ ~a.marker THEN "exception"
    ELSE "success"

\* A mutant: a fixed wait between attempts.
BackoffDelayFixed(att) == 5

\* delay = 5 * (attempt + 1), attempt counted from 0.
BackoffDelay(att) == 5 * (att + 1)

\* A mutant: an HTTP error is retried after the backoff, like an exception.
SafeGotoAttemptHttpRetries(iface, paged, att, a) ==
    LET b == AttemptBranch(iface, paged, a) IN
    CASE b = "rate_limit" ->
            [next |-> "continue", sleeps |-> << <<"rate_limit", RateLimitWait>> >>]
      [] b = "redirect" -> [next |-> "false", sleeps |-> << >>]
      [] b \in {"exception", "http_error"} ->
            IF att < max_retries - 1
            THEN [next |-> "continue", sleeps |-> << <<"backoff", BackoffDelay(att)>> >>]
            ELSE [next |-> "continue", sleeps |-> << >>]
      [] b = "success" ->
            [next |-> "true",
             sleeps |-> IF iface = "zara" THEN << <<"page_load", page_loading_time>> >> ELSE << >>]

\* A mutant: a 429 fails the call like any other HTTP error, after the wait.
SafeGotoAttemptRateLimitFails(iface, paged, att, a) ==
    LET b == AttemptBranch(iface, paged, a) IN
    CASE b = "rate_limit" ->
            [next |-> "false", sleeps |-> << <<"rate_limit", RateLimitWait>> >>]
      [] b = "http_error" -> [next |-> "false", sleeps |-> << >>]
      [] b = "redirect" -> [next |-> "false", sleeps |-> << >>]
      [] b = "exception" ->
            IF att < max_retries - 1
            THEN [next |-> "continue", sleeps |-> << <<"backoff", BackoffDelay(att)>> >>]
            ELSE [next |-> "continue", sleeps |-> << >>]
      [] b = "success" ->
            [next |-> "true",
             sleeps |-> IF iface = "zara" THEN << <<"page_load", page_loading_time>> >> ELSE << >>]

\* A mutant: the last failed attempt re-raises instead of falling out of
\* the loop (what _retry_request does).
SafeGotoAttemptReraise(iface, paged, att, a) ==
    LET b == AttemptBranch(iface, paged, a) IN
    CASE b = "rate_limit" ->
            [next |-> "continue", sleeps |-> << <<"rate_limit", RateLimitWait>> >>]
      [] b = "http_error" -> [next |-> "false", sleeps |-> << >>]
      [] b = "redirect" -> [next |-> "false", sleeps |-> << >>]
      [] b = "exception" ->
            IF att < max_retries - 1
            THEN [next |-> "continue", sleeps |-> << <<"backoff", BackoffDelay(att)>> >>]
            ELSE [next |-> "raised", sleeps |-> << >>]
      [] b = "success" ->
            [next |-> "true",
             sleeps |-> IF iface = "zara" THEN << <<"page_load", page_loading_time>> >> ELSE << >>]

\* One pass through the body of the for loop: what it sleeps and how it
\* leaves ("continue" = go on to the next attempt number).
SafeGotoAttempt(iface, paged, att, a) ==
    LET b == AttemptBranch(iface, paged, a) IN
    CASE b = "rate_limit" ->
            [next |-> "continue", sleeps |-> << <<"rate_limit", RateLimitWait>> >>]
      [] b = "http_error" -> [next |-> "false", sleeps |-> << >>]
      [] b = "redirect" -> [next |-> "false", sleeps |-> << >>]
      [] b = "exception" ->
            IF att < max_retries - 1
            THEN [next |-> "continue", sleeps |-> << <<"backoff", BackoffDelay(att)>> >>]
            ELSE [next |-> "continue", sleeps |-> << >>]
      [] b = "success" ->
            [next |-> "true",
             sleeps |-> IF iface = "zara" THEN << <<"page_load", page_loading_time>> >> ELSE << >>]

NavIdle ==
    /\ nav_pc = "idle"
    /\ nav_iface = "farfetch"
    /\ nav_paged = FALSE
    /\ nav_script = << >>
    /\ attempt = 0
    /\ nav_log = << >>
    /\ nav_sleeps = << >>
    /\ nav_result = "none"
    /\ browser_inits = 1

\* safe_goto(url, add_delay) is entered: the optional pre-request delay.
SafeGotoCall ==
    /\ nav_pc = "idle"
    /\ \E iface \in {"farfetch", "zara"}, paged \in BOOLEAN, add_delay \in BOOLEAN,
          script \in SeqsOfLen(Answers, MaxScript),
          delay \in {RequestDelayMin, RequestDelayMax} :
          /\ (~add_delay => delay = RequestDelayMin)
          /\ nav_iface' = iface
          /\ nav_paged' = paged
          /\ nav_script' = script
          /\ nav_sleeps' = IF add_delay THEN << <<"request_delay", delay>> >> ELSE << >>
    /\ nav_pc' = "loop"
    /\ attempt' = 0
    /\ nav_log' = << >>
    /\ nav_result' = "none"
    /\ UNCHANGED <<browser_inits, mainVars, scrollVars, multiVars, extractVars, fileVars, restVars>>

\* One iteration of `for attempt in range(max_retries)`.
SafeGotoLoop ==
    /\ nav_pc = "loop"
    /\ attempt < max_retries
    /\ Len(nav_log) < MaxScript
    /\ LET a == nav_script[Len(nav_log) + 1]
           r == SafeGotoAttempt(nav_iface, nav_paged, attempt, a)
           att2 == IF r.next = "continue" THEN attempt + 1 ELSE attempt
       IN /\ nav_log' = Append(nav_log, a)
          /\ nav_sleeps' = nav_sleeps \o r.sleeps
          /\ attempt' = att2
          /\ IF r.next \in {"true", "false", "raised"}
             THEN nav_pc' = "returned" /\ nav_result' = r.next
             ELSE IF att2 >= max_retries
                  THEN nav_pc' = "returned" /\ nav_result' = "false"
                  ELSE nav_pc' = "loop" /\ nav_result' = "none"
    /\ UNCHANGED <<nav_iface, nav_paged, nav_script, browser_inits, mainVars, scrollVars, multiVars, extractVars, fileVars, restVars>>

NavNext == SafeGotoCall \/ SafeGotoLoop

(***************************************************************************)
(* main.py: run_scrapper, the numbered-page orchestrator                   *)
(***************************************************************************)
max_consecutive_empty == 5

\* The configured categories of the chosen gender, in configured order.
categories == <<"dresses", "coats">>

\* Largest page count get_number_of_pages reports.
MaxPages == 7

\* The pagination label as text_content() and split(" из ") see it: absent
\* (the locator times out), or present with its text cut at the separator
\* into parts; a part is a number or not.
Token(numeric, value) == [numeric |-> numeric, value |-> value]

Label(present, parts) == [present |-> present, parts |-> parts]

Labels ==
    { Label(FALSE, << >>),                                   \* no label
      Label(TRUE, << >>),                                    \* empty text
      Label(TRUE, << Token(TRUE, 1) >>),                     \* no separator
      Label(TRUE, << Token(TRUE, 1), Token(FALSE, 0) >>) }   \* no number
    \cup { Label(TRUE, << Token(TRUE, 1), Token(TRUE, n) >>) : n \in 0..MaxPages }

\* safe_goto's result for the listing page, and the label found there.
Listings ==
    { [loaded |-> FALSE, label |-> Label(FALSE, << >>)] }
    \cup { [loaded |-> TRUE, label |-> l] : l \in Labels }

NoListing == [loaded |-> FALSE, label |-> Label(FALSE, << >>)]

\* A mutant: a listing without a usable label counts as a single page.
NumberOfPagesAtLeastOne(loaded, label) ==
    IF ~loaded THEN 0
    ELSE IF ~label.present THEN 1
    ELSE IF label.parts = << >> THEN 1
    ELSE IF Len(label.parts) < 2 THEN 1
    ELSE IF ~label.parts[2].numeric THEN 1
    ELSE label.parts[2].value

\* get_number_of_pages: 0 when safe_goto fails; inside the try, a missing
\* label, a text without " из " (IndexError) and a part that is no number
\* (ValueError) all reach `except Exception: return 0`; empty text falls
\* through to the last `return 0`.
NumberOfPages(loaded, label) ==
    IF ~loaded THEN 0
    ELSE IF ~label.present THEN 0
    ELSE IF label.parts = << >> THEN 0
    ELSE IF Len(label.parts) < 2 THEN 0
    ELSE IF ~label.parts[2].numeric THEN 0
    ELSE label.parts[2].value

\* How persisting one page's records can go: both stores accept them, the
\* file store raises (unreadable or unwritable file), or the document store
\* raises something other than DuplicateKeyError (connection lost).
PersistOutcomes == {"ok", "file_raises", "mongo_raises"}

\* The record parse_elements builds for the product link of a page.
PageRecord(c, p) == [url |-> <<c, p>>, category |-> categories[c]]

\* A mutant: the counter is not reset by a page that has links.
NextEmptyCountNoReset(count, links_empty) ==
    IF links_empty THEN count + 1 ELSE count

\* consecutive_empty_pages after a page (main.py 78-86).
NextEmptyCount(count, links_empty) ==
    IF links_empty THEN count + 1 ELSE 0

\* A mutant: the threshold test is strict, so one more page is fetched.
StopsHereStrict(count) == count > max_consecutive_empty

\* The `break` test on the incremented counter (main.py 81).
StopsHere(count) == count >= max_consecutive_empty

\* A mutant: the file is rewritten with the new records only.
SaveToFileOverwrite(contents, data) == data

\* save_to_file: read the list in the file, extend it, write it back.
SaveToFile(contents, data) == contents \o data

\* save_to_mongo: insert_data per record; the unique index on url makes a
\* second insert of a url raise DuplicateKeyError, which insert_data catches.
SaveToMongo(stored, data) == stored \cup {data[i].url : i \in 1..Len(data)}

\* How get_elements can go for a page: safe_goto returns False, the wait for
\* the grid or a query on it raises, the grid holds no card, or there are
\* hrefs.  A page without links is one of the first three.
ListingPageKinds(empty) ==
    IF empty THEN {"nav_failed", "query_raises", "no_cards"} ELSE {"links"}

FailureKinds == {"nav_failed", "query_raises"}

\* The hrefs evaluate_all finds on page p of category c.
PageLinks(c, p) == << <<c, p>> >>

\* A mutant: only a grid without cards yields the empty list.
GetElementsEmptyOnlyWithoutCards(kind, hrefs) ==
    IF kind = "no_cards" THEN << >> ELSE hrefs

\* get_elements (interfaces.py 214-233).
GetElements(kind, hrefs) ==
    IF kind = "nav_failed" THEN << >>
    ELSE IF kind = "query_raises" THEN << >>
    ELSE IF kind = "no_cards" THEN << >>
    ELSE hrefs

\* The length of the run of failed pages that ends with a page of this kind.
NextFailRun(n, kind) == IF kind \in FailureKinds THEN n + 1 ELSE 0

MainIdle ==
    /\ m_pc = "off"
    /\ listing = NoListing
    /\ cat = 0
    /\ pages = 0
    /\ site_empty = << >>
    /\ page = 0
    /\ consecutive_empty_pages = 0
    /\ fetched = << >>
    /\ left_by = "none"
    /\ file = << >>
    /\ mongo = {}
    /\ closed = 0
    /\ last_why = "none"
    /\ fail_run = 0

\* The url template of the chosen catalog, as the set of replacement fields
\* in it: Catalog.urls calls url.format(category=x).
UrlTemplates == { {"category"}, {"category", "page"} }

\* str.format raises KeyError for a replacement field it is given no value for.
FormatRaises(fields) == fields \ {"category"} # {}

\* run_scrapper after line 40: the browser is started, nothing else is.
MainInit ==
    /\ m_pc = "started"
    /\ listing = NoListing
    /\ cat = 1
    /\ pages = 0
    /\ site_empty = << >>
    /\ page = 0
    /\ consecutive_empty_pages = 0
    /\ fetched = << >>
    /\ left_by = "none"
    /\ file = << >>
    /\ mongo = {}
    /\ closed = 0
    /\ last_why = "none"
    /\ fail_run = 0

\* run_scrapper lines 42-52, before the try of line 54: the document-store
\* client is constructed (MongoClient raises for a connection string it
\* cannot parse), the collection is created (whatever that raises is
\* swallowed), the urls are formatted.  An exception here leaves
\* run_scrapper without passing through `finally: driver.close()`.
SetUp ==
    /\ m_pc = "started"
    /\ \E client_ok \in BOOLEAN, collection_raises \in BOOLEAN,
          template \in UrlTemplates :
         IF client_ok /\ ~FormatRaises(template)
         THEN /\ m_pc' = "category"
              /\ UNCHANGED left_by
         ELSE /\ m_pc' = "aborted"
              /\ left_by' = "setup"
    /\ UNCHANGED <<listing, cat, pages, site_empty, page, consecutive_empty_pages,
                   fetched, file, mongo, closed, last_why, fail_run, navVars, scrollVars, multiVars, extractVars, fileVars, restVars>>

\* The next (url, category) pair: get_number_of_pages, counter reset.
GetNumberOfPages ==
    /\ m_pc = "category"
    /\ cat <= Len(categories)
    /\ \E l \in Listings :
         LET n == NumberOfPages(l.loaded, l.label) IN
         \E e \in [1..n -> BOOLEAN] :
            /\ listing' = l
            /\ pages' = n
            /\ site_empty' = e
    /\ page' = 1
    /\ consecutive_empty_pages' = 0
    /\ fetched' = << >>
    /\ left_by' = "none"
    /\ last_why' = "none"
    /\ fail_run' = 0
    /\ m_pc' = "pages"
    /\ UNCHANGED <<cat, file, mongo, closed, navVars, scrollVars, multiVars, extractVars, fileVars, restVars>>

\* One iteration of the page loop in which get_elements returns no link.
EmptyPage ==
    /\ m_pc = "pages"
    /\ page <= pages
    /\ \E why \in ListingPageKinds(site_empty[page]) :
         /\ GetElements(why, PageLinks(cat, page)) = << >>
         /\ last_why' = why
         /\ fail_run' = NextFailRun(fail_run, why)
    /\ fetched' = Append(fetched, page)
    /\ consecutive_empty_pages' = NextEmptyCount(consecutive_empty_pages, TRUE)
    /\ IF StopsHere(consecutive_empty_pages')
       THEN /\ left_by' = "break"
            /\ cat' = cat + 1
            /\ m_pc' = "category"
            /\ page' = page
       ELSE /\ page' = page + 1
            /\ UNCHANGED <<left_by, cat, m_pc>>
    /\ UNCHANGED <<listing, pages, site_empty, file, mongo, closed, navVars, scrollVars, multiVars, extractVars, fileVars, restVars>>

\* One iteration of the page loop that finds links: parse, save to the file,
\* save to the document store.  An exception of either store is not caught
\* in the loop: it leaves run_scrapper through `finally: driver.close()`.
PageWithLinks ==
    /\ m_pc = "pages"
    /\ page <= pages
    /\ \E why \in ListingPageKinds(site_empty[page]) :
         /\ GetElements(why, PageLinks(cat, page)) # << >>
         /\ last_why' = why
         /\ fail_run' = NextFailRun(fail_run, why)
    /\ fetched' = Append(fetched, page)
    /\ consecutive_empty_pages' = NextEmptyCount(consecutive_empty_pages, FALSE)
    /\ \E o \in PersistOutcomes :
         LET parsed_data == << PageRecord(cat, page) >> IN
         CASE o = "ok" ->
                /\ file' = SaveToFile(file, parsed_data)
                /\ mongo' = SaveToMongo(mongo, parsed_data)
                /\ page' = page + 1
                /\ UNCHANGED <<m_pc, left_by, closed>>
           [] o = "file_raises" ->
                /\ m_pc' = "aborted"
                /\ left_by' = "exception"
                /\ closed' = closed + 1
                /\ UNCHANGED <<file, mongo, page>>
           [] o = "mongo_raises" ->
                /\ file' = SaveToFile(file, parsed_data)
                /\ m_pc' = "aborted"
                /\ left_by' = "exception"
                /\ closed' = closed + 1
                /\ UNCHANGED <<mongo, page>>
    /\ UNCHANGED <<listing, cat, pages, site_empty, navVars, scrollVars, multiVars, extractVars, fileVars, restVars>>

\* range(1, pages + 1) is exhausted: on to the next category.
PagesExhausted ==
    /\ m_pc = "pages"
    /\ page > pages
    /\ left_by' = "exhausted"
    /\ cat' = cat + 1
    /\ m_pc' = "category"
    /\ UNCHANGED <<listing, pages, site_empty, page, consecutive_empty_pages, fetched,
                   file, mongo, closed, last_why, fail_run, navVars, scrollVars, multiVars, extractVars, fileVars, restVars>>

\* zip(urls, categories) is exhausted: the finally clause closes the browser.
CategoriesExhausted ==
    /\ m_pc = "category"
    /\ cat > Len(categories)
    /\ m_pc' = "done"
    /\ closed' = closed + 1
    /\ UNCHANGED <<listing, cat, pages, site_empty, page, consecutive_empty_pages,
                   fetched, left_by, file, mongo, last_why, fail_run, navVars, scrollVars, multiVars, extractVars, fileVars, restVars>>

MainNext ==
    \/ SetUp
    \/ GetNumberOfPages
    \/ EmptyPage
    \/ PageWithLinks
    \/ PagesExhausted
    \/ CategoriesExhausted

(***************************************************************************)
(* ZaraPlaywrightInterface.scroll_and_load_items, the infinite-scroll      *)
(* loader                                                                  *)
(***************************************************************************)
max_no_new_items == 5

\* The hrefs the page can show are 0..NumLinks; 0 stands for a heading whose
\* href is missing or does not start with "http".
NumLinks == 3

\* Largest items_limit tried.
MaxLimit == 3

\* Scroll iterations explored in one call.
MaxScrolls == 8

ValidHref(h) == h > 0

\* current_links: the distinct valid hrefs among the headings now present.
CurrentLinks(dom) == {h \in dom : ValidHref(h)}

\* all_links after an iteration: the list of the links present now.
LinksAfterScroll(held, dom) == CurrentLinks(dom)

\* The stagnation test and counter of one iteration: <<new counter, stop>>.
Stagnation(current_count, prev_count, no_new) ==
    IF current_count = prev_count
    THEN <<no_new + 1, no_new + 1 >= max_no_new_items>>
    ELSE <<0, FALSE>>

\* all_links[:items_limit] of a list built from a set: some `limit` of them
\* (all of them if there are no more than that).
Truncations(links, limit) ==
    IF limit < 0 THEN {{}}
    ELSE IF Cardinality(links) <= limit THEN {links}
    ELSE {t \in SUBSET links : Cardinality(t) = limit}

ScrollIdle ==
    /\ s_pc = "off"
    /\ items_limit = 0
    /\ all_links = {}
    /\ previous_count = 0
    /\ no_new_items_count = 0
    /\ scrolls = 0
    /\ seen_links = {}
    /\ last_new = 0
    /\ dom_shrank = FALSE
    /\ s_result = {}

ScrollInit ==
    /\ s_pc = "call"
    /\ items_limit \in 0..MaxLimit
    /\ all_links = {}
    /\ previous_count = 0
    /\ no_new_items_count = 0
    /\ scrolls = 0
    /\ seen_links = {}
    /\ last_new = 0
    /\ dom_shrank = FALSE
    /\ s_result = {}

\* The call starts: safe_goto(url) fails and [] is returned, or the loop is
\* entered.
ScrollCall ==
    /\ s_pc = "call"
    /\ \E nav_ok \in BOOLEAN :
          IF nav_ok
          THEN s_pc' = "loop" /\ s_result' = {}
          ELSE s_pc' = "returned" /\ s_result' = {}
    /\ UNCHANGED <<items_limit, all_links, previous_count, no_new_items_count,
                   scrolls, seen_links, last_new, dom_shrank, navVars, mainVars, multiVars, extractVars, fileVars, restVars>>

\* The while condition fails: return all_links[:items_limit].
ScrollLoopExit ==
    /\ s_pc = "loop"
    /\ ~(Cardinality(all_links) < items_limit)
    /\ \E t \in Truncations(all_links, items_limit) : s_result' = t
    /\ s_pc' = "returned"
    /\ UNCHANGED <<items_limit, all_links, previous_count, no_new_items_count,
                   scrolls, seen_links, last_new, dom_shrank, navVars, mainVars, multiVars, extractVars, fileVars, restVars>>

\* The scroll itself (page.evaluate, outside the try block) raises.
ScrollRaises ==
    /\ s_pc = "loop"
    /\ Cardinality(all_links) < items_limit
    /\ scrolls < MaxScrolls
    /\ scrolls' = scrolls + 1
    /\ s_pc' = "raised"
    /\ s_result' = {}
    /\ UNCHANGED <<items_limit, all_links, previous_count, no_new_items_count,
                   seen_links, last_new, dom_shrank, navVars, mainVars, multiVars, extractVars, fileVars, restVars>>

\* One iteration in which the query of the headings raises: break, and
\* return what is held.
ScrollQueryRaises ==
    /\ s_pc = "loop"
    /\ Cardinality(all_links) < items_limit
    /\ scrolls < MaxScrolls
    /\ scrolls' = scrolls + 1
    /\ \E t \in Truncations(all_links, items_limit) : s_result' = t
    /\ s_pc' = "returned"
    /\ UNCHANGED <<items_limit, all_links, previous_count, no_new_items_count,
                   seen_links, last_new, dom_shrank, navVars, mainVars, multiVars, extractVars, fileVars, restVars>>

\* One whole iteration: scroll, read the links now present, test stagnation
\* and the limit.
ScrollIteration ==
    /\ s_pc = "loop"
    /\ Cardinality(all_links) < items_limit
    /\ scrolls < MaxScrolls
    /\ \E dom \in SUBSET (0..NumLinks) :
         LET links == LinksAfterScroll(all_links, dom)
             current_count == Cardinality(links)
             st == Stagnation(current_count, previous_count, no_new_items_count)
         IN /\ scrolls' = scrolls + 1
            /\ all_links' = links
            /\ seen_links' = seen_links \cup CurrentLinks(dom)
            /\ last_new' = IF CurrentLinks(dom) \subseteq seen_links
                           THEN last_new ELSE scrolls + 1
            /\ dom_shrank' = (dom_shrank \/ ~(all_links \subseteq CurrentLinks(dom)))
            /\ no_new_items_count' = st[1]
            /\ IF st[2]
               THEN /\ UNCHANGED previous_count
                    /\ \E t \in Truncations(links, items_limit) : s_result' = t
                    /\ s_pc' = "returned"
               ELSE /\ previous_count' = current_count
                    /\ IF current_count >= items_limit
                       THEN /\ \E t \in Truncations(links, items_limit) : s_result' = t
                            /\ s_pc' = "returned"
                       ELSE UNCHANGED <<s_result, s_pc>>
    /\ UNCHANGED <<items_limit, navVars, mainVars, multiVars, extractVars, fileVars, restVars>>

ScrollNext ==
    \/ ScrollCall
    \/ ScrollLoopExit
    \/ ScrollRaises
    \/ ScrollQueryRaises
    \/ ScrollIteration

(***************************************************************************)
(* zara_parser/api.py: parse_multiple_categories with save_progress and   *)
(* load_progress                                                           *)
(***************************************************************************)
\* The category lists a caller may pass (name stands for the {url, name} dict).
CallerLists == { <<"woman-jackets", "man-jackets", "kids-preteen">>,
                 <<"man-jackets", "kids-preteen">> }

\* Most products one category yields.
MaxFound == 2

\* Runs of the program started one after the other.
MaxRuns == 2

NoCheckpoint ==
    [exists |-> FALSE, current_index |-> 0, categories |-> << >>, products |-> << >>]

\* The records parse_category returns for a category that yields k products.
CategoryProducts(name, k) ==
    [j \in 1..k |-> [url |-> <<name, j>>, category |-> name]]

\* save_progress: the file is opened with "w" and rewritten whole.
SaveProgress(current_index, cats, prods) ==
    [exists |-> TRUE, current_index |-> current_index,
     categories |-> cats, products |-> prods]

\* A mutant: the resumed run starts at position 0 again.
LoadProgressFromZero(ck) ==
    IF ck.exists
    THEN <<0, ck.categories, ck.products>>
    ELSE <<0, << >>, << >>>>

\* load_progress: <<current_index, categories, products>> of the file, and
\* <<0, [], []>> when the file is missing or unreadable.
LoadProgress(ck) ==
    IF ck.exists
    THEN <<ck.current_index, ck.categories, ck.products>>
    ELSE <<0, << >>, << >>>>

\* A mutant: the checkpoint is written only where products were found (the
\* unconditional save at the end of the loop body is missing).
CheckpointOnlyOnSuccess(ck, outcome, current_index, cats, prods) ==
    IF outcome = "products" THEN SaveProgress(current_index, cats, prods) ELSE ck

\* The checkpoint file after the loop body for one category: the save in
\* the success branch and the save at the end of the body write the same.
CheckpointAfterCategory(ck, outcome, current_index, cats, prods) ==
    SaveProgress(current_index, cats, prods)

\* A mutant: the resumed run keeps the list its caller passed.
CategoriesOfRunCallers(resume, caller, loaded) == caller

\* The list the loop iterates: the parameter, rebound to the loaded list by
\* the unpacking of line 476 when resume is set.
CategoriesOfRun(resume, caller, loaded) == IF resume THEN loaded[2] ELSE caller

\* len(set(p['category'] for p in all_products))
DistinctCategories(prods) == Cardinality({prods[j].category : j \in 1..Len(prods)})

MultiIdle ==
    /\ mc_pc = "off"
    /\ ckpt = NoCheckpoint
    /\ mc_categories = << >>
    /\ mc_i = 0
    /\ all_products = << >>
    /\ successful_categories = 0
    /\ failed_categories = 0
    /\ runs = 0
    /\ mc_resumed = FALSE
    /\ start_index = 0
    /\ restored = << >>
    /\ passed = << >>
    /\ processed = << >>
    /\ outcomes = << >>
    /\ found = << >>
    /\ ckpt_at_start = NoCheckpoint

\* No run has been made yet and there is no checkpoint file.
MultiInit ==
    /\ mc_pc = "idle"
    /\ ckpt = NoCheckpoint
    /\ mc_categories = << >>
    /\ mc_i = 0
    /\ all_products = << >>
    /\ successful_categories = 0
    /\ failed_categories = 0
    /\ runs = 0
    /\ mc_resumed = FALSE
    /\ start_index = 0
    /\ restored = << >>
    /\ passed = << >>
    /\ processed = << >>
    /\ outcomes = << >>
    /\ found = << >>
    /\ ckpt_at_start = NoCheckpoint

\* parse_multiple_categories(categories, resume) up to the loop.
StartRun ==
    /\ mc_pc \in {"idle", "returned"}
    /\ runs < MaxRuns
    /\ runs' = runs + 1
    /\ \E caller \in CallerLists, resume \in BOOLEAN :
         LET loaded == LoadProgress(ckpt) IN
         /\ passed' = caller
         /\ mc_resumed' = resume
         /\ start_index' = IF resume THEN loaded[1] ELSE 0
         /\ mc_categories' = CategoriesOfRun(resume, caller, loaded)
         /\ all_products' = IF resume THEN loaded[3] ELSE << >>
         /\ restored' = IF resume THEN loaded[3] ELSE << >>
         /\ successful_categories' =
               IF resume THEN DistinctCategories(loaded[3]) ELSE 0
         /\ mc_i' = IF resume THEN loaded[1] ELSE 0
    /\ failed_categories' = 0
    /\ processed' = << >>
    /\ outcomes' = << >>
    /\ found' = << >>
    /\ ckpt_at_start' = ckpt
    /\ mc_pc' = "running"
    /\ UNCHANGED <<ckpt, navVars, mainVars, scrollVars, extractVars, fileVars, restVars>>

\* One pass through the loop body: parse the category, extend the list,
\* write the checkpoint.
ProcessCategory ==
    /\ mc_pc = "running"
    /\ mc_i < Len(mc_categories)
    /\ \E outcome \in {"products", "none", "raised"}, k \in 1..MaxFound :
         LET name == mc_categories[mc_i + 1]
             products == IF outcome = "products"
                         THEN CategoryProducts(name, k) ELSE << >>
             after == all_products \o products
         IN /\ (outcome # "products" => k = 1)
            /\ all_products' = after
            /\ successful_categories' =
                  IF outcome = "products"
                  THEN successful_categories + 1 ELSE successful_categories
            /\ failed_categories' =
                  IF outcome = "products"
                  THEN failed_categories ELSE failed_categories + 1
            /\ ckpt' = CheckpointAfterCategory(ckpt, outcome, mc_i + 1,
                                               mc_categories, after)
            /\ outcomes' = Append(outcomes, outcome)
            /\ found' = Append(found, Len(products))
    /\ processed' = Append(processed, mc_i)
    /\ mc_i' = mc_i + 1
    /\ UNCHANGED <<mc_pc, mc_categories, runs, mc_resumed, start_index,
                   restored, passed, ckpt_at_start,
                   navVars, mainVars, scrollVars, extractVars, fileVars, restVars>>

\* range(start_index, len(categories)) is exhausted: return all_products.
MultiReturn ==
    /\ mc_pc = "running"
    /\ mc_i >= Len(mc_categories)
    /\ mc_pc' = "returned"
    /\ UNCHANGED <<ckpt, mc_categories, mc_i, all_products,
                   successful_categories, failed_categories, runs, mc_resumed,
                   start_index, restored, passed, processed, outcomes, found,
                   ckpt_at_start,
                   navVars, mainVars, scrollVars, extractVars, fileVars, restVars>>

\* The process is stopped between two categories; only the file survives.
Interrupt ==
    /\ mc_pc = "running"
    /\ mc_i < Len(mc_categories)
    /\ mc_pc' = "idle"
    /\ UNCHANGED <<ckpt, mc_categories, mc_i, all_products,
                   successful_categories, failed_categories, runs, mc_resumed,
                   start_index, restored, passed, processed, outcomes, found,
                   ckpt_at_start,
                   navVars, mainVars, scrollVars, extractVars, fileVars, restVars>>

MultiNext ==
    \/ StartRun
    \/ ProcessCategory
    \/ MultiReturn
    \/ Interrupt

(***************************************************************************)
(* The extractor loops: PlaywrightInterface.parse_elements and             *)
(* zara_api_parser.ZaraAPIParser.parse_category / parse_product            *)
(***************************************************************************)
\* Longest list of product references.
MaxRefs == 3

Null == "None"

\* What a product page can be like for parse_elements: nav = safe_goto
\* returned true; images = the image query did not raise; price, desc = the
\* price / short description was found.
PageKinds ==
    { [nav |-> TRUE, images |-> TRUE, price |-> TRUE, desc |-> TRUE],
      [nav |-> FALSE, images |-> TRUE, price |-> TRUE, desc |-> TRUE],
      [nav |-> TRUE, images |-> FALSE, price |-> TRUE, desc |-> TRUE],
      [nav |-> TRUE, images |-> TRUE, price |-> FALSE, desc |-> TRUE],
      [nav |-> TRUE, images |-> TRUE, price |-> TRUE, desc |-> FALSE] }

\* What a raw API entry can be like for parse_product: its type and kind,
\* and whether its fields have the shape the mapping expects.
RawKinds ==
    { [type |-> "Product", kind |-> "Wear", wellformed |-> TRUE],
      [type |-> "Product", kind |-> "Marketing", wellformed |-> TRUE],
      [type |-> "Bundle", kind |-> "Wear", wellformed |-> TRUE],
      [type |-> "Product", kind |-> "Wear", wellformed |-> FALSE] }

\* A mutant: a product page without a price yields no record.
ParseElementNeedsPrice(link, pg) ==
    IF ~pg.nav THEN << >>
    ELSE IF ~pg.images THEN << >>
    ELSE IF ~pg.price THEN << >>
    ELSE << [url |-> link,
             price |-> "price",
             short_description |-> IF pg.desc THEN "text" ELSE Null] >>

\* The body of the parse_elements loop for one link: the records it appends.
ParseElement(link, pg) ==
    IF ~pg.nav THEN << >>
    ELSE IF ~pg.images THEN << >>
    ELSE << [url |-> link,
             price |-> IF pg.price THEN "price" ELSE Null,
             short_description |-> IF pg.desc THEN "text" ELSE Null] >>

\* The empty dict parse_product returns for what it cannot map.
EmptyDict == << >>

\* zara_api_parser parse_product: {} for a non-product, a marketing entry
\* or an exception in the mapping, the record otherwise.
ParseProduct(ref, raw) ==
    IF raw.type # "Product" THEN EmptyDict
    ELSE IF raw.kind = "Marketing" THEN EmptyDict
    ELSE IF ~raw.wellformed THEN EmptyDict
    ELSE [url |-> ref]

\* A mutant: what parse_product returns is appended without the test.
ParseCategoryEntryUntested(ref, raw) == << ParseProduct(ref, raw) >>

\* The body of the parse_category loop for one entry: `if parsed:` append.
ParseCategoryEntry(ref, raw) ==
    LET parsed == ParseProduct(ref, raw) IN
    IF DOMAIN parsed = {} THEN << >> ELSE << parsed >>

ExtractIdle ==
    /\ ex_pc = "off"
    /\ ex_path = "browser"
    /\ ex_refs = << >>
    /\ ex_i = 0
    /\ ex_data = << >>

\* The loop is entered with a list of references.
ExtractInit ==
    /\ ex_pc = "loop"
    /\ \/ ex_path = "browser" /\ ex_refs \in SeqsUpTo(PageKinds, MaxRefs)
       \/ ex_path = "api" /\ ex_refs \in SeqsUpTo(RawKinds, MaxRefs)
    /\ ex_i = 0
    /\ ex_data = << >>

\* One pass through the body of `for i, link in enumerate(links)`.
ParseElementsStep ==
    /\ ex_pc = "loop"
    /\ ex_path = "browser"
    /\ ex_i < Len(ex_refs)
    /\ ex_data' = ex_data \o ParseElement(ex_i + 1, ex_refs[ex_i + 1])
    /\ ex_i' = ex_i + 1
    /\ UNCHANGED <<ex_pc, ex_path, ex_refs,
                   navVars, mainVars, scrollVars, multiVars, fileVars, restVars>>

\* One pass through the body of `for i, product_data in enumerate(products, 1)`.
ParseCategoryStep ==
    /\ ex_pc = "loop"
    /\ ex_path = "api"
    /\ ex_i < Len(ex_refs)
    /\ ex_data' = ex_data \o ParseCategoryEntry(ex_i + 1, ex_refs[ex_i + 1])
    /\ ex_i' = ex_i + 1
    /\ UNCHANGED <<ex_pc, ex_path, ex_refs,
                   navVars, mainVars, scrollVars, multiVars, fileVars, restVars>>

\* The list is exhausted: return data / parsed_products.
ExtractReturn ==
    /\ ex_pc = "loop"
    /\ ex_i >= Len(ex_refs)
    /\ ex_pc' = "returned"
    /\ UNCHANGED <<ex_path, ex_refs, ex_i, ex_data,
                   navVars, mainVars, scrollVars, multiVars, fileVars, restVars>>

ExtractNext ==
    \/ ParseElementsStep
    \/ ParseCategoryStep
    \/ ExtractReturn

(***************************************************************************)
(* save_to_file (main.py and main_zara.py): read, extend, rewrite          *)
(***************************************************************************)
\* The records a call may carry, and the longest data list of one call.
FileRecords == {[url |-> "a"], [url |-> "b"]}

MaxData == 2

\* save_to_file calls on the path.
MaxSaves == 3

\* json.load of the file; FileNotFoundError gives [].
ReadFile(f) == IF f.exists THEN f.records ELSE << >>

FileIdle ==
    /\ fs_file = [exists |-> FALSE, records |-> << >>]
    /\ fs_initial = << >>
    /\ fs_calls = << >>

\* The path holds no file, or a list written by earlier runs.
FileInit ==
    /\ fs_file \in {[exists |-> FALSE, records |-> << >>]}
                   \cup {[exists |-> TRUE, records |-> r] :
                            r \in SeqsUpTo(FileRecords, MaxData)}
    /\ fs_initial = ReadFile(fs_file)
    /\ fs_calls = << >>

\* One save_to_file(filepath, data) call.
SaveToFileCall ==
    /\ Len(fs_calls) < MaxSaves
    /\ \E data \in SeqsUpTo(FileRecords, MaxData) :
          /\ fs_file' = [exists |-> TRUE,
                         records |-> SaveToFile(ReadFile(fs_file), data)]
          /\ fs_calls' = Append(fs_calls, data)
    /\ UNCHANGED <<fs_initial, navVars, mainVars, scrollVars, multiVars, extractVars,
                   restVars>>

FileNext == SaveToFileCall

(***************************************************************************)
(* The document store: MongoInterface.create_collection / insert_data and  *)
(* the orchestrator's create_collection step                               *)
(***************************************************************************)
Urls == {"u1", "u2"}

\* insert_data calls in one run.
MaxInserts == 4

\* No element occurs twice in q.
NoRepeat(q) == \A i, j \in 1..Len(q) : (i # j) => (q[i] # q[j])

\* create_collection: list_collection_names (raises when the server cannot
\* be reached), the raise for a collection that exists, create_index.
CreateCollection(exists, indexed, reachable) ==
    IF ~reachable THEN [raises |-> TRUE, exists |-> exists, indexed |-> indexed]
    ELSE IF exists THEN [raises |-> TRUE, exists |-> exists, indexed |-> indexed]
    ELSE [raises |-> FALSE, exists |-> TRUE, indexed |-> TRUE]

\* insert_one of a fresh record: DuplicateKeyError when the unique index
\* is there and holds the url; otherwise the document is stored (and the
\* collection made, without an index, when it did not exist).
InsertOne(docs, indexed, url) ==
    IF indexed /\ url \in Range(docs)
    THEN [duplicate |-> TRUE, docs |-> docs]
    ELSE [duplicate |-> FALSE, docs |-> Append(docs, url)]

CountOf(q, u) == Cardinality({i \in 1..Len(q) : q[i] = u})

\* A mutant: the first duplicate ends the loop.
RECURSIVE SaveToMongoLoopStopsAtDuplicate(_, _, _)
SaveToMongoLoopStopsAtDuplicate(docs, indexed, data) ==
    IF data = << >> THEN [docs |-> docs, caught |-> 0]
    ELSE LET r == InsertOne(docs, indexed, data[1]) IN
         IF r.duplicate THEN [docs |-> r.docs, caught |-> 1]
         ELSE SaveToMongoLoopStopsAtDuplicate(r.docs, indexed, Tail(data))

\* save_to_mongo: `for sample in data: mongo.insert_data(collection, sample)`,
\* where insert_data catches the DuplicateKeyError of its insert_one.
RECURSIVE SaveToMongoLoop(_, _, _)
SaveToMongoLoop(docs, indexed, data) ==
    IF data = << >> THEN [docs |-> docs, caught |-> 0]
    ELSE LET r == InsertOne(docs, indexed, data[1])
             rest == SaveToMongoLoop(r.docs, indexed, Tail(data)) IN
         [docs |-> rest.docs,
          caught |-> rest.caught + (IF r.duplicate THEN 1 ELSE 0)]

StoreIdle ==
    /\ db_pc = "off"
    /\ db_exists = FALSE
    /\ db_indexed = FALSE
    /\ db_docs = << >>
    /\ db_inserts = << >>
    /\ db_dup_caught = 0
    /\ db_file = << >>

\* The database before a run: no collection, or the collection an earlier
\* run's create_collection made, with its index and distinct urls; the
\* file holds what that run saved.
StoreInit ==
    /\ db_pc = "start"
    /\ db_exists \in BOOLEAN
    /\ db_indexed = db_exists
    /\ db_docs \in {q \in SeqsUpTo(Urls, 2) : NoRepeat(q) /\ (~db_exists => q = << >>)}
    /\ db_inserts = << >>
    /\ db_dup_caught = 0
    /\ db_file = db_docs

\* run_scrapper: try: mongo.create_collection(...) except: pass
CreateCollectionStep ==
    /\ db_pc = "start"
    /\ \E reachable \in BOOLEAN :
         LET r == CreateCollection(db_exists, db_indexed, reachable) IN
         /\ db_exists' = r.exists
         /\ db_indexed' = r.indexed
    /\ db_pc' = "ready"
    /\ UNCHANGED <<db_docs, db_inserts, db_dup_caught, db_file, besideStore>>

\* insert_data(collection_name, data_sample)
InsertData ==
    /\ db_pc = "ready"
    /\ Len(db_inserts) < MaxInserts
    /\ \E url \in Urls :
         LET r == InsertOne(db_docs, db_indexed, url) IN
         /\ db_docs' = r.docs
         /\ db_dup_caught' = IF r.duplicate THEN db_dup_caught + 1 ELSE db_dup_caught
         /\ db_inserts' = Append(db_inserts, url)
    /\ db_exists' = TRUE
    /\ UNCHANGED <<db_pc, db_indexed, db_file, besideStore>>

\* run_scrapper with the records of one page: save_to_file(..., data), then
\* save_to_mongo(mongo, ..., data).
SaveBatch ==
    /\ db_pc = "ready"
    /\ \E data \in SeqsUpTo(Urls, 2) \ {<< >>} :
         LET r == SaveToMongoLoop(db_docs, db_indexed, data) IN
         /\ Len(db_inserts) + Len(data) <= MaxInserts
         /\ db_file' = SaveToFile(db_file, data)
         /\ db_docs' = r.docs
         /\ db_dup_caught' = db_dup_caught + r.caught
         /\ db_inserts' = db_inserts \o data
    /\ db_exists' = TRUE
    /\ UNCHANGED <<db_pc, db_indexed, besideStore>>

StoreNext ==
    \/ CreateCollectionStep
    \/ InsertData
    \/ SaveBatch

(***************************************************************************)
(* The browser pipeline of one category: which request_delay sleeps and    *)
(* which navigations get_number_of_pages, get_elements and parse_elements  *)
(* issue, in order                                                         *)
(***************************************************************************)
\* Pages of the category and product links of one page.
MaxPipePages == 2

MaxPipeLinks == 2

DelayEvent == [kind |-> "request_delay", url |-> << >>]

GotoEvent(url) == [kind |-> "goto", url |-> url]

\* safe_goto(url, add_delay): the optional request_delay sleep, then one
\* page.goto(url) per attempt made.
SafeGotoEvents(url, add_delay, tries) ==
    (IF add_delay THEN << DelayEvent >> ELSE << >>)
       \o [j \in 1..tries |-> GotoEvent(url)]

\* parse_elements: `if i > 0:` sleep request_delay, for the link at index i.
ParseElementsDelay(i) == IF i > 0 THEN << DelayEvent >> ELSE << >>

PipeIdle ==
    /\ pl_pc = "off"
    /\ pl_pages = 0
    /\ pl_page = 0
    /\ pl_links = 0
    /\ pl_i = 0
    /\ pl_trace = << >>

PipeInit ==
    /\ pl_pc = "start"
    /\ pl_pages = 0
    /\ pl_page = 0
    /\ pl_links = 0
    /\ pl_i = 0
    /\ pl_trace = << >>

\* get_number_of_pages(url): safe_goto(url) with its delay.
PipeGetNumberOfPages ==
    /\ pl_pc = "start"
    /\ \E n \in 0..MaxPipePages, tries \in {1, max_retries} :
          /\ pl_pages' = n
          /\ pl_trace' = pl_trace \o SafeGotoEvents(<<"listing">>, TRUE, tries)
    /\ pl_page' = 1
    /\ pl_pc' = "pages"
    /\ UNCHANGED <<pl_links, pl_i, besidePipe>>

\* get_elements(url_page): safe_goto(url_page) with its delay; a page with
\* links goes on to parse_elements, one without to the next page.
PipeGetElements ==
    /\ pl_pc = "pages"
    /\ pl_page <= pl_pages
    /\ \E k \in 0..MaxPipeLinks, tries \in {1, max_retries} :
          /\ pl_trace' = pl_trace \o SafeGotoEvents(<<"page", pl_page>>, TRUE, tries)
          /\ pl_links' = k
          /\ IF k = 0
             THEN pl_page' = pl_page + 1 /\ pl_pc' = "pages"
             ELSE pl_page' = pl_page /\ pl_pc' = "links"
    /\ pl_i' = 0
    /\ UNCHANGED <<pl_pages, besidePipe>>

\* parse_elements, one link: the delay when i > 0, safe_goto(link,
\* add_delay=False).
PipeParseElement ==
    /\ pl_pc = "links"
    /\ pl_i < pl_links
    /\ \E tries \in {1, max_retries} :
          pl_trace' = pl_trace \o ParseElementsDelay(pl_i)
                         \o SafeGotoEvents(<<"product", pl_page, pl_i>>, FALSE, tries)
    /\ pl_i' = pl_i + 1
    /\ UNCHANGED <<pl_pc, pl_pages, pl_page, pl_links, besidePipe>>

\* parse_elements returns; the page loop goes on.
PipeParseReturn ==
    /\ pl_pc = "links"
    /\ pl_i >= pl_links
    /\ pl_page' = pl_page + 1
    /\ pl_pc' = "pages"
    /\ UNCHANGED <<pl_pages, pl_links, pl_i, pl_trace, besidePipe>>

\* range(1, pages + 1) is exhausted.
PipeDone ==
    /\ pl_pc = "pages"
    /\ pl_page > pl_pages
    /\ pl_pc' = "done"
    /\ UNCHANGED <<pl_pages, pl_page, pl_links, pl_i, pl_trace, besidePipe>>

PipeNext ==
    \/ PipeGetNumberOfPages
    \/ PipeGetElements
    \/ PipeParseElement
    \/ PipeParseReturn
    \/ PipeDone

(***************************************************************************)
(* zara_parser/api.py: ZaraAPIParser._retry_request and                    *)
(* get_category_products                                                   *)
(***************************************************************************)
\* _retry_request's default max_retries and its wait between attempts.
api_max_retries == 3

RetryWait == 5

\* Most components in a listing response, and the largest items_limit.
MaxApiProducts == 2

MaxApiLimit == 2

\* One call of the wrapped function: it raised (timeout, connection error,
\* raise_for_status, bad JSON) or returned body.
Reply(ok, body) == [ok |-> ok, body |-> body]

\* A category of the lookup response: whether it carries an id, and the id.
CategoryEntry(has_id, id) == [has_id |-> has_id, id |-> id]

\* The lookup response: whether it has the key 'categories', and the list.
LookupBody(has_categories, cats) == [has_categories |-> has_categories, categories |-> cats]

NoBody == LookupBody(FALSE, << >>)

LookupReplies ==
    { Reply(FALSE, NoBody),
      Reply(TRUE, LookupBody(FALSE, << >>)),
      Reply(TRUE, LookupBody(TRUE, << >>)),
      Reply(TRUE, LookupBody(TRUE, << CategoryEntry(FALSE, "") >>)),
      Reply(TRUE, LookupBody(TRUE, << CategoryEntry(TRUE, "c1") >>)),
      Reply(TRUE, LookupBody(TRUE, << CategoryEntry(TRUE, "c1"),
                                      CategoryEntry(FALSE, "") >>)) }

\* The listing response: whether it has 'productGroups', and its commercial
\* components in response order.
ListingBody(has_groups, components) == [has_groups |-> has_groups, components |-> components]

ListingReplies ==
    { Reply(FALSE, ListingBody(FALSE, << >>)),
      Reply(TRUE, ListingBody(FALSE, << >>)) }
    \cup { Reply(TRUE, ListingBody(TRUE, [j \in 1..k |-> j])) : k \in 0..MaxApiProducts }

\* A mutant: the wait is slept after the last failure too.
RetryStepSleepsAlways(att, failed) ==
    IF ~failed THEN [next |-> "returned", sleeps |-> << >>]
    ELSE IF att < api_max_retries - 1
         THEN [next |-> "running", sleeps |-> << RetryWait >>]
         ELSE [next |-> "raised", sleeps |-> << RetryWait >>]

\* One pass through the body of _retry_request's loop.
RetryStep(att, failed) ==
    IF ~failed THEN [next |-> "returned", sleeps |-> << >>]
    ELSE IF att < api_max_retries - 1
         THEN [next |-> "running", sleeps |-> << RetryWait >>]
         ELSE [next |-> "raised", sleeps |-> << >>]

\* A mutant: a listed category is enough, its id is not looked at.
RealCategoryIdFoundIfListed(info) ==
    info.has_categories /\ info.categories # << >>

\* real_category_id is set and truthy: 'categories' is in the response and
\* not empty, and the first category has an id.
RealCategoryIdFound(info) ==
    /\ info.has_categories
    /\ info.categories # << >>
    /\ info.categories[1].has_id
    /\ info.categories[1].id # ""

\* all_products gathered from data, then `if self.items_limit:` the slice.
GatherProducts(data, limit) ==
    LET all == IF data.has_groups THEN data.components ELSE << >> IN
    IF limit # 0 /\ Len(all) > limit THEN SubSeq(all, 1, limit) ELSE all

ApiIdle ==
    /\ api_pc = "off"
    /\ api_limit = 0
    /\ api_calls = << >>
    /\ api_info = Reply(FALSE, NoBody)
    /\ api_result = << >>
    /\ rr_fn = "none"
    /\ rr_attempt = 0
    /\ rr_answers = << >>
    /\ rr_sleeps = << >>
    /\ rr_state = "idle"
    /\ rr_value = << >>

ApiInit ==
    /\ api_pc = "start"
    /\ api_limit \in 0..MaxApiLimit
    /\ api_calls = << >>
    /\ api_info = Reply(FALSE, NoBody)
    /\ api_result = << >>
    /\ rr_fn = "none"
    /\ rr_attempt = 0
    /\ rr_answers = << >>
    /\ rr_sleeps = << >>
    /\ rr_state = "idle"
    /\ rr_value = << >>

\* get_category_products up to self._retry_request(_get_category_info).
ApiLookupStart ==
    /\ api_pc = "start"
    /\ api_pc' = "lookup"
    /\ rr_fn' = "categories"
    /\ rr_attempt' = 0
    /\ rr_answers' = << >>
    /\ rr_sleeps' = << >>
    /\ rr_state' = "running"
    /\ UNCHANGED <<api_limit, api_calls, api_info, api_result, rr_value, besideApi>>

\* One iteration of `for attempt in range(max_retries)` in _retry_request.
RetryAttempt ==
    /\ rr_state = "running"
    /\ rr_attempt < api_max_retries
    /\ \E reply \in (IF rr_fn = "categories" THEN LookupReplies ELSE ListingReplies) :
         LET r == RetryStep(rr_attempt, ~reply.ok) IN
         /\ rr_answers' = Append(rr_answers, reply)
         /\ rr_sleeps' = rr_sleeps \o r.sleeps
         /\ rr_state' = r.next
         /\ rr_attempt' = IF r.next = "running" THEN rr_attempt + 1 ELSE rr_attempt
         /\ rr_value' = IF r.next = "returned" THEN << reply.body >> ELSE << >>
    /\ api_calls' = Append(api_calls, rr_fn)
    /\ UNCHANGED <<api_pc, api_limit, api_info, api_result, rr_fn, besideApi>>

\* The lookup is over: its exception reaches `except Exception: return []`,
\* a response without a usable id returns [], any other starts the listing
\* request.
AfterLookup ==
    /\ api_pc = "lookup"
    /\ rr_state \in {"returned", "raised"}
    /\ IF rr_state = "raised"
       THEN /\ api_pc' = "returned"
            /\ api_result' = << >>
            /\ UNCHANGED <<api_info, rr_fn, rr_attempt, rr_answers, rr_sleeps,
                           rr_state, rr_value>>
       ELSE /\ api_info' = Reply(TRUE, rr_value[1])
            /\ IF RealCategoryIdFound(rr_value[1])
               THEN /\ api_pc' = "products"
                    /\ rr_fn' = "products"
                    /\ rr_attempt' = 0
                    /\ rr_answers' = << >>
                    /\ rr_sleeps' = << >>
                    /\ rr_state' = "running"
                    /\ rr_value' = << >>
                    /\ UNCHANGED api_result
               ELSE /\ api_pc' = "returned"
                    /\ api_result' = << >>
                    /\ UNCHANGED <<rr_fn, rr_attempt, rr_answers, rr_sleeps,
                                   rr_state, rr_value>>
    /\ UNCHANGED <<api_limit, api_calls, besideApi>>

\* The listing request is over: [] after its exception, the gathered and
\* limited products otherwise.
AfterListing ==
    /\ api_pc = "products"
    /\ rr_state \in {"returned", "raised"}
    /\ api_result' = IF rr_state = "raised" THEN << >>
                     ELSE GatherProducts(rr_value[1], api_limit)
    /\ api_pc' = "returned"
    /\ UNCHANGED <<api_limit, api_calls, api_info, rr_fn, rr_attempt, rr_answers,
                   rr_sleeps, rr_state, rr_value, besideApi>>

ApiNext ==
    \/ ApiLookupStart
    \/ RetryAttempt
    \/ AfterLookup
    \/ AfterListing

(***************************************************************************)
(* zara_api_parser.py: ZaraAPIParser.get_category_products, the fetch of   *)
(* the pipeline main_zara.py runs                                          *)
(***************************************************************************)
\* Most commercial components in one item, and the largest items_limit.
MaxComponents == 2

MaxCap == 2

\* A commercial component: where it stands in the response (group, item,
\* component) and its 'type' and 'kind' ("" for a missing key).
Component(path, type, kind) == [path |-> path, type |-> type, kind |-> kind]

ComponentKinds ==
    { [type |-> "Product", kind |-> "Wear"],
      [type |-> "Product", kind |-> "Marketing"],
      [type |-> "Bundle", kind |-> "Wear"],
      [type |-> "", kind |-> ""] }

\* The shapes of a response: the kinds of the components of an item, the
\* items of a group, which the group carries under 'elements' or under
\* 'products', and the groups.
ItemShapes == SeqsUpTo(ComponentKinds, MaxComponents)

ItemListShapes ==
    { << >> }
    \cup { << a >> : a \in ItemShapes }
    \cup { << a, << [type |-> "Product", kind |-> "Wear"] >> >> : a \in ItemShapes }

GroupShapes == [key : {"elements", "products"}, items : ItemListShapes]

SecondGroupShapes ==
    { [key |-> "elements", items |-> << << [type |-> "Product", kind |-> "Wear"] >> >>],
      [key |-> "products", items |-> << << [type |-> "Product", kind |-> "Marketing"],
                                           [type |-> "Product", kind |-> "Wear"] >> >>] }

ResponseShapes ==
    { << >> }
    \cup { << g >> : g \in GroupShapes }
    \cup { << g, h >> : g \in GroupShapes, h \in SecondGroupShapes }

\* The response of a shape: item i of group g with its commercialComponents.
ItemOf(g, i, shape) ==
    [commercialComponents |->
        [c \in 1..Len(shape) |-> Component(<<g, i, c>>, shape[c].type, shape[c].kind)]]

GroupOf(g, shape) ==
    LET items == [i \in 1..Len(shape.items) |-> ItemOf(g, i, shape.items[i])] IN
    [elements |-> IF shape.key = "elements" THEN items ELSE << >>,
     products |-> IF shape.key = "products" THEN items ELSE << >>]

\* response.json(): whether it has 'productGroups', and the groups.
DataOf(has_groups, shape) ==
    [has_groups |-> has_groups,
     productGroups |-> [g \in 1..Len(shape) |-> GroupOf(g, shape[g])]]

\* What session.get / raise_for_status / response.json() of the listing
\* request comes to: an exception (timeout, connection error, status that
\* is not 2xx, bad JSON) or the data.
FetchReplies ==
    { Reply(FALSE, DataOf(FALSE, << >>)), Reply(TRUE, DataOf(FALSE, << >>)) }
    \cup { Reply(TRUE, DataOf(TRUE, s)) : s \in ResponseShapes }

\* A mutant: every commercial component is taken (zara_parser/api.py).
IsRealProductAny(product) == TRUE

\* `if product_type == 'Product' and product_kind != 'Marketing'`
IsRealProduct(product) == product.type = "Product" /\ product.kind # "Marketing"

\* `items = elements if elements else products`
ItemsOf(group) == IF group.elements # << >> THEN group.elements ELSE group.products

\* The two inner loops: the components of the items, item after item, that
\* are appended to all_products.
RECURSIVE ProductsOfItems(_)
ProductsOfItems(items) ==
    IF items = << >> THEN << >>
    ELSE SelectSeq(items[1].commercialComponents, IsRealProduct)
         \o ProductsOfItems(Tail(items))

\* The outer loop over data['productGroups'].
RECURSIVE ProductsOfGroups(_)
ProductsOfGroups(groups) ==
    IF groups = << >> THEN << >>
    ELSE ProductsOfItems(ItemsOf(groups[1])) \o ProductsOfGroups(Tail(groups))

\* all_products before the limit.
AllProducts(data) ==
    IF data.has_groups THEN ProductsOfGroups(data.productGroups) ELSE << >>

\* items_limit: None, or a number.
NoLimit == [is_none |-> TRUE, n |-> 0]

LimitOf(n) == [is_none |-> FALSE, n |-> n]

Limits == { NoLimit } \cup { LimitOf(n) : n \in 0..MaxCap }

\* `if self.items_limit:` all_products = all_products[:self.items_limit]
ApplyLimit(all, limit) ==
    IF ~limit.is_none /\ limit.n # 0
    THEN SubSeq(all, 1, IF limit.n < Len(all) THEN limit.n ELSE Len(all))
    ELSE all

\* What get_category_products returns after the listing request: [] from
\* either except clause, the limited products otherwise.
GetCategoryProducts(reply, limit) ==
    IF ~reply.ok THEN << >> ELSE ApplyLimit(AllProducts(reply.body), limit)

FetchIdle ==
    /\ zf_pc = "off"
    /\ zf_limit = NoLimit
    /\ zf_reply = Reply(FALSE, DataOf(FALSE, << >>))
    /\ zf_requests = << >>
    /\ zf_result = << >>

FetchInit ==
    /\ zf_pc = "start"
    /\ zf_limit \in Limits
    /\ zf_reply = Reply(FALSE, DataOf(FALSE, << >>))
    /\ zf_requests = << >>
    /\ zf_result = << >>

\* self._initialize_session(country, lang): one request for the cookies,
\* whose failure is logged and ignored.
FetchInitializeSession ==
    /\ zf_pc = "start"
    /\ zf_pc' = "session"
    /\ zf_requests' = Append(zf_requests, "home")
    /\ UNCHANGED <<zf_limit, zf_reply, zf_result, besideFetch>>

\* The listing request: session.get, raise_for_status, response.json().
FetchRequest ==
    /\ zf_pc = "session"
    /\ \E reply \in FetchReplies : zf_reply' = reply
    /\ zf_requests' = Append(zf_requests, "products")
    /\ zf_pc' = "answered"
    /\ UNCHANGED <<zf_limit, zf_result, besideFetch>>

\* The rest of the try block, or the except clause that returns [].
FetchReturn ==
    /\ zf_pc = "answered"
    /\ zf_result' = GetCategoryProducts(zf_reply, zf_limit)
    /\ zf_pc' = "returned"
    /\ UNCHANGED <<zf_limit, zf_reply, zf_requests, besideFetch>>

FetchNext ==
    \/ FetchInitializeSession
    \/ FetchRequest
    \/ FetchReturn

(***************************************************************************)
(* zara_api_parser.py: ZaraAPIParser.parse_product and build_product_url   *)
(***************************************************************************)
\* A number as Python's true division leaves it: num / den.
Quotient(num, den) == [num |-> num, den |-> den]

\* A dict entry: whether the key is there, and its value.
Entry(present, value) == [present |-> present, value |-> value]

\* Raw 'price' values, in minor units.
RawPrices == {0, 1, 99, 12990}

\* product_data['seo']: its keyword and seoProductId ('' as .get's default
\* for a missing key) and its discernProductId entry.
Seo(keyword, seo_product_id, discern) ==
    [keyword |-> keyword, seoProductId |-> seo_product_id, discernProductId |-> discern]

SeoKinds ==
    { Seo(k, s, d) : k \in {"", "jacket"}, s \in {"", "s9"},
                     d \in {Entry(FALSE, ""), Entry(TRUE, "d7")} }

\* The first entry of detail['colors']: its name and its own 'price' entry;
\* numeric is FALSE for a price that cannot be divided (null, text).
ColorOf(name, price, numeric) == [name |-> name, price |-> price, numeric |-> numeric]

ColorLists ==
    { << >>,
      << ColorOf("black", Entry(FALSE, 0), TRUE) >>,
      << ColorOf("black", Entry(TRUE, 12990), TRUE) >>,
      << ColorOf("black", Entry(TRUE, 500), TRUE) >>,
      << ColorOf("black", Entry(TRUE, 0), FALSE) >> }

\* The raw product objects handed to parse_product; seo_is_dict is FALSE
\* for a 'seo' that is no dict, on which seo.get raises.
RawProducts ==
    [type : {"Product", "Bundle"},
     kind : {"Wear", "Marketing"},
     id : {Entry(FALSE, ""), Entry(TRUE, "101")},
     price : {Entry(FALSE, 0)} \cup {Entry(TRUE, p) : p \in RawPrices},
     seo_is_dict : BOOLEAN,
     seo : SeoKinds,
     colors : ColorLists]

\* What an f-string or json writes for a .get() result: None when missing.
Formatted(entry) == IF entry.present THEN entry.value ELSE Null

\* build_product_url: the f-string, piece by piece.
BuildProductUrl(country, lang, seo_keyword, seo_product_id, product_id) ==
    << "https://www.zara.com/", country, "/", lang, "/", seo_keyword,
       "-p", seo_product_id, ".html?v1=", product_id >>

\* A mutant: the price is kept in minor units.
ProductPriceUndivided(product_data) ==
    IF product_data.price.present /\ product_data.price.value # 0
    THEN Quotient(product_data.price.value, 1)
    ELSE Quotient(0, 1)

\* price = product_data.get('price', 0) / 100 if product_data.get('price') else 0
ProductPrice(product_data) ==
    IF product_data.price.present /\ product_data.price.value # 0
    THEN Quotient(product_data.price.value, 100)
    ELSE Quotient(0, 1)

\* A mutant: the product's own id always ends the url.
DiscernProductIdOwn(product_data) == Formatted(product_data.id)

\* discern_product_id = seo.get('discernProductId', product_id)
DiscernProductId(product_data) ==
    IF product_data.seo.discernProductId.present
    THEN product_data.seo.discernProductId.value
    ELSE Formatted(product_data.id)

\* color_info['price'] = first_color.get('price', price) / 100
ColorInfoPrice(first_color, price) ==
    IF first_color.price.present
    THEN Quotient(first_color.price.value, 100)
    ELSE Quotient(price.num, price.den * 100)

\* The statements of the try block that raise on this product.
MappingRaises(product_data) ==
    \/ ~product_data.seo_is_dict
    \/ /\ product_data.colors # << >>
       /\ product_data.colors[1].price.present
       /\ ~product_data.colors[1].numeric

\* parse_product: {} for what is no product, for a marketing entry and for
\* an exception; otherwise the record, whose price is the local `price`.
ParseProductRecord(product_data, country, lang) ==
    IF product_data.type # "Product" THEN EmptyDict
    ELSE IF product_data.kind = "Marketing" THEN EmptyDict
    ELSE IF MappingRaises(product_data) THEN EmptyDict
    ELSE [url |-> BuildProductUrl(country, lang, product_data.seo.keyword,
                                  product_data.seo.seoProductId,
                                  DiscernProductId(product_data)),
          id |-> Formatted(product_data.id),
          price |-> ProductPrice(product_data),
          currency |-> "KZT",
          color |-> IF product_data.colors # << >>
                    THEN product_data.colors[1].name ELSE Null]

ProductIdle ==
    /\ pr_pc = "off"
    /\ pr_data = << >>
    /\ pr_country = ""
    /\ pr_lang = ""
    /\ pr_record = EmptyDict

\* parse_product is called with a raw product and the country and language
\* parse_category took from the category url.
ProductInit ==
    /\ pr_pc = "call"
    /\ pr_data \in RawProducts
    /\ \E site \in {<<"kz", "en">>, <<"us", "es">>} :
         pr_country = site[1] /\ pr_lang = site[2]
    /\ pr_record = EmptyDict

ParseProductCall ==
    /\ pr_pc = "call"
    /\ pr_record' = ParseProductRecord(pr_data, pr_country, pr_lang)
    /\ pr_pc' = "returned"
    /\ UNCHANGED <<pr_data, pr_country, pr_lang, besideProduct>>

ProductNext == ParseProductCall

(***************************************************************************)
(* main_zara.py: run_scrapper over the configured categories, with         *)
(* zara_api_parser's parse_category loop                                   *)
(***************************************************************************)
\* getattr(config, gender).categories, as category names, and the gender.
zara_categories == <<"man-jackets", "man-shirts">>

zara_gender == "male"

\* Most products get_category_products returns for one category.
MaxZaraProducts == 3

\* What get_category_products can return: products that passed its
\* type / kind test, in any number; [] also stands for its failure.
FetchedLists ==
    SeqsUpTo({r \in RawKinds : r.type = "Product" /\ r.kind # "Marketing"},
             MaxZaraProducts)

\* parsed['category'] = category_name and product['gender'] = gender: the
\* dict with one more key.
WithKey(record, key, value) ==
    [k \in DOMAIN record \cup {key} |-> IF k = key THEN value ELSE record[k]]

\* One pass through parse_category's loop for the product at position j of
\* category c: what it appends to parsed_products.
ParsedOfProduct(c, j, raw) ==
    LET entry == ParseCategoryEntry(<<c, j>>, raw) IN
    [k \in 1..Len(entry) |-> WithKey(entry[k], "category", zara_categories[c])]

\* `for product in parsed_data: product['gender'] = gender`
WithGender(parsed_data) ==
    [k \in 1..Len(parsed_data) |-> WithKey(parsed_data[k], "gender", zara_gender)]

ZaraIdle ==
    /\ z_pc = "off"
    /\ z_cat = 0
    /\ z_products = << >>
    /\ z_i = 0
    /\ z_parsed = << >>
    /\ z_file = << >>
    /\ z_offered = << >>
    /\ z_fetched = << >>
    /\ z_outcome = << >>

\* run_scrapper has made the parser and the store and enters the loop over
\* the categories; the file of this run starts empty.
ZaraInit ==
    /\ z_pc = "category"
    /\ z_cat = 1
    /\ z_products = << >>
    /\ z_i = 0
    /\ z_parsed = << >>
    /\ z_file = << >>
    /\ z_offered = << >>
    /\ z_fetched = << >>
    /\ z_outcome = << >>

\* parser.parse_category up to its loop: get_category_products returns the
\* products; with none, parse_category returns [] and run_scrapper goes on
\* to the next category.
ZaraGetProducts ==
    /\ z_pc = "category"
    /\ z_cat <= Len(zara_categories)
    /\ \E products \in FetchedLists :
         /\ z_fetched' = Append(z_fetched, products)
         /\ IF products = << >>
            THEN /\ z_cat' = z_cat + 1
                 /\ z_outcome' = Append(z_outcome, "empty")
                 /\ UNCHANGED <<z_pc, z_products>>
            ELSE /\ z_pc' = "parsing"
                 /\ z_products' = products
                 /\ UNCHANGED <<z_cat, z_outcome>>
    /\ z_i' = 0
    /\ z_parsed' = << >>
    /\ UNCHANGED <<z_file, z_offered, besideZara>>

\* One pass through `for i, product_data in enumerate(products, 1)`.
ZaraParseProduct ==
    /\ z_pc = "parsing"
    /\ z_i < Len(z_products)
    /\ z_parsed' = z_parsed \o ParsedOfProduct(z_cat, z_i + 1, z_products[z_i + 1])
    /\ z_i' = z_i + 1
    /\ UNCHANGED <<z_pc, z_cat, z_products, z_file, z_offered, z_fetched,
                   z_outcome, besideZara>>

\* parse_category returns; run_scrapper skips an empty parsed_data, and
\* otherwise sets the gender, calls save_to_file and then save_to_mongo,
\* whose loop hands the records to insert_data one by one. An exception of
\* either call is caught by `except Exception`, and the loop goes on.
ZaraSaveCategory ==
    /\ z_pc = "parsing"
    /\ z_i >= Len(z_products)
    /\ LET parsed_data == WithGender(z_parsed) IN
       IF parsed_data = << >>
       THEN /\ z_outcome' = Append(z_outcome, "empty")
            /\ UNCHANGED <<z_file, z_offered>>
       ELSE \E outcome \in PersistOutcomes, k \in 1..Len(parsed_data) :
            /\ z_outcome' = Append(z_outcome, outcome)
            /\ z_file' = IF outcome = "file_raises" THEN z_file
                         ELSE SaveToFile(z_file, parsed_data)
            /\ z_offered' = IF outcome = "file_raises" THEN z_offered
                            ELSE IF outcome = "mongo_raises"
                                 THEN z_offered \o SubSeq(parsed_data, 1, k)
                                 ELSE z_offered \o parsed_data
    /\ z_pc' = "category"
    /\ z_cat' = z_cat + 1
    /\ z_products' = << >>
    /\ z_i' = 0
    /\ z_parsed' = << >>
    /\ UNCHANGED <<z_fetched, besideZara>>

\* The loop over the categories is over.
ZaraDone ==
    /\ z_pc = "category"
    /\ z_cat > Len(zara_categories)
    /\ z_pc' = "done"
    /\ UNCHANGED <<z_cat, z_products, z_i, z_parsed, z_file, z_offered,
                   z_fetched, z_outcome, besideZara>>

ZaraNext ==
    \/ ZaraGetProducts
    \/ ZaraParseProduct
    \/ ZaraSaveCategory
    \/ ZaraDone

(***************************************************************************)
(* The proxy rotation manager: next() and markFailed(proxy) on a ProxyPool *)
(* of proxies, current_index and failed                                    *)
(***************************************************************************)
ProxyNames == {"p1", "p2", "p3"}

\* The pools: the proxies of a list file, each once, in its order.
ProxyPools == { q \in SeqsUpTo(ProxyNames, Cardinality(ProxyNames)) : NoRepeat(q) }

\* The 0-based positions from `from` on, cyclically, whose proxy is not in
\* failed.
UsableFrom(proxies, from, failed) ==
    LET n == Len(proxies) IN
    SelectSeq([k \in 1..n |-> (from + k - 1) % n],
              LAMBDA i : proxies[i + 1] \notin failed)

\* A mutant: the entry at current_index is handed out, blacklisted or not.
NextProxyAnyEntry(proxies, current_index, failed) ==
    IF proxies = << >>
    THEN [proxy |-> Null, current_index |-> current_index, failed |-> failed]
    ELSE [proxy |-> proxies[current_index + 1],
          current_index |-> (current_index + 1) % Len(proxies),
          failed |-> failed]

\* next(): none for an empty pool; the first entry, with the blacklist
\* cleared, when every proxy is blacklisted; otherwise the first entry from
\* current_index on that is not blacklisted, and current_index moves past it.
NextProxy(proxies, current_index, failed) ==
    IF proxies = << >>
    THEN [proxy |-> Null, current_index |-> current_index, failed |-> failed]
    ELSE LET usable == UsableFrom(proxies, current_index, failed) IN
         IF usable = << >>
         THEN [proxy |-> proxies[1], current_index |-> 1 % Len(proxies), failed |-> {}]
         ELSE [proxy |-> proxies[usable[1] + 1],
               current_index |-> (usable[1] + 1) % Len(proxies),
               failed |-> failed]

\* markFailed(proxy): the proxy joins the blacklist and stays in the pool.
MarkFailed(failed, proxy) == failed \cup {proxy}

\* No call of next() yet.
NoCall == [called |-> FALSE, proxy |-> Null, index_before |-> 0,
           failed_before |-> {}, failed_after |-> {}]

ProxyIdle ==
    /\ px_pc = "off"
    /\ px_proxies = << >>
    /\ px_index = 0
    /\ px_failed = {}
    /\ px_last = NoCall

\* The manager with its pool loaded: current_index 0, nothing blacklisted.
ProxyInit ==
    /\ px_pc = "ready"
    /\ px_proxies \in ProxyPools
    /\ px_index = 0
    /\ px_failed = {}
    /\ px_last = NoCall

ProxyNextCall ==
    /\ px_pc = "ready"
    /\ LET r == NextProxy(px_proxies, px_index, px_failed) IN
       /\ px_index' = r.current_index
       /\ px_failed' = r.failed
       /\ px_last' = [called |-> TRUE, proxy |-> r.proxy, index_before |-> px_index,
                      failed_before |-> px_failed, failed_after |-> r.failed]
    /\ UNCHANGED <<px_pc, px_proxies, besideProxy>>

\* The caller reports a proxy of the pool as failing.
ProxyMarkFailed ==
    /\ px_pc = "ready"
    /\ \E proxy \in Range(px_proxies) :
         px_failed' = MarkFailed(px_failed, proxy)
    /\ UNCHANGED <<px_pc, px_proxies, px_index, px_last, besideProxy>>

ProxyNext ==
    \/ ProxyNextCall
    \/ ProxyMarkFailed

(***************************************************************************)
(* parse_category's reading of the category url (zara_api_parser.py and    *)
(* zara_parser/api.py); text is a sequence of characters                   *)
(***************************************************************************)
\* s begins with sep.
StartsWith(s, sep) == Len(s) >= Len(sep) /\ SubSeq(s, 1, Len(sep)) = sep

\* `sub in s`
RECURSIVE Contains(_, _)
Contains(s, sub) ==
    IF StartsWith(s, sub) THEN TRUE
    ELSE IF s = << >> THEN FALSE
    ELSE Contains(Tail(s), sub)

\* s.split(sep): the pieces between the occurrences of sep, from the left.
RECURSIVE Split(_, _)
Split(s, sep) ==
    IF s = << >> THEN << << >> >>
    ELSE IF StartsWith(s, sep)
         THEN << << >> >> \o Split(SubSeq(s, Len(sep) + 1, Len(s)), sep)
         ELSE LET rest == Split(Tail(s), sep) IN
              << << Head(s) >> \o rest[1] >> \o Tail(rest)

DashL == << "-", "l" >>

Dot == << "." >>

QuestionMark == << "?" >>

Ampersand == << "&" >>

V1Param == << "?", "v", "1", "=" >>

DotHtml == << ".", "h", "t", "m", "l" >>

\* Slugs of category pages, among them those of get_zara_categories.
CategorySlugs ==
    { << "m", "a", "n", "-", "j", "a", "c", "k", "e", "t", "s" >>,
      << "m", "a", "n", "-", "s", "h", "i", "r", "t", "s" >>,
      << "w", "o", "m", "a", "n", "-", "l", "e", "a", "t", "h", "e", "r" >>,
      << "w", "o", "m", "a", "n", "-", "l", "i", "n", "g", "e", "r", "i", "e" >>,
      << "z", "h", "e", "n", "s", "h", "c", "h", "i", "n", "y", "-", "k", "o", "z", "h", "a" >> }

\* Category ids and values of the v1 parameter.
CategoryIds == { << "6", "4", "0" >>, << "1", "1", "7", "4" >>, << "4", "0", "2", "1" >> }

V1Values == { << "2", "5", "3", "6", "9", "0", "6" >> }

\* A category url https://www.zara.com/<country>/<lang>/<slug>-l<id>.html,
\* with ?v1=<v1> after it when v1 is present.
CategoryUrl(country, lang, slug, id, v1) ==
    [country |-> country, lang |-> lang, slug |-> slug, id |-> id, v1 |-> v1]

CategoryUrls ==
    { CategoryUrl(site[1], site[2], slug, id, v1) :
        site \in {<<"kz", "en">>, <<"kz", "ru">>}, slug \in CategorySlugs,
        id \in CategoryIds,
        v1 \in {Entry(FALSE, << >>)} \cup {Entry(TRUE, v) : v \in V1Values} }

\* category_url.replace('https://www.zara.com/', '').split('/'): the
\* country, the language and the rest.
UrlParts(url) ==
    << url.country, url.lang,
       url.slug \o DashL \o url.id \o DotHtml
           \o (IF url.v1.present THEN V1Param \o url.v1.value ELSE << >>) >>

\* No id: parse_category returns [] before any request.
NoCategoryId == [found |-> FALSE, category_id |-> << >>]

FoundCategoryId(id) == [found |-> TRUE, category_id |-> id]

\* zara_api_parser.parse_category: the v1 parameter when the url has one,
\* else what follows the first '-l' of the page name up to the next '.'.
CategoryIdOfUrl(url) ==
    LET parts == UrlParts(url)
        category_part == Split(parts[3], QuestionMark)[1] IN
    IF Contains(parts[3], V1Param)
    THEN FoundCategoryId(Split(Split(parts[3], V1Param)[2], Ampersand)[1])
    ELSE IF Contains(category_part, DashL)
         THEN FoundCategoryId(Split(Split(category_part, DashL)[2], Dot)[1])
         ELSE NoCategoryId

\* zara_parser/api.py parse_category: split('-l')[1].split('.')[0] first (an
\* IndexError, caught, when there is no '-l'), then the v1 parameter over it.
CategoryIdOfUrlApi(url) ==
    LET parts == UrlParts(url)
        category_part == parts[3] IN
    IF Len(Split(category_part, DashL)) < 2 THEN NoCategoryId
    ELSE IF Contains(parts[3], V1Param)
         THEN FoundCategoryId(Split(Split(parts[3], V1Param)[2], Ampersand)[1])
         ELSE FoundCategoryId(Split(Split(category_part, DashL)[2], Dot)[1])

UrlIdle ==
    /\ up_pc = "off"
    /\ up_parser = "zara_api_parser"
    /\ up_url = CategoryUrl("", "", << >>, << >>, Entry(FALSE, << >>))
    /\ up_result = NoCategoryId

\* parse_category of either parser is called with a category url.
UrlInit ==
    /\ up_pc = "call"
    /\ up_parser \in {"zara_api_parser", "zara_parser/api"}
    /\ up_url \in CategoryUrls
    /\ up_result = NoCategoryId

\* The try block at the head of parse_category.
ParseCategoryUrl ==
    /\ up_pc = "call"
    /\ up_result' = IF up_parser = "zara_api_parser"
                    THEN CategoryIdOfUrl(up_url) ELSE CategoryIdOfUrlApi(up_url)
    /\ up_pc' = "parsed"
    /\ UNCHANGED <<up_parser, up_url, besideUrl>>

UrlNext == ParseCategoryUrl

(***************************************************************************)
(* zara_parser/api_en.py: get_adult_categories_only and the main block     *)
(***************************************************************************)
\* get_zara_categories of api_en.py, by name and in its order: women's,
\* men's, children's categories and the anniversary collection.
ZaraCategoriesEn ==
    << <<"w", "o", "m", "a", "n", "-", "j", "a", "c", "k", "e", "t", "s">>,
       <<"w", "o", "m", "a", "n", "-", "o", "u", "t", "e", "r", "w", "e", "a", "r">>,
       <<"w", "o", "m", "a", "n", "-", "w", "i", "n", "t", "e", "r">>,
       <<"w", "o", "m", "a", "n", "-", "s", "a", "l", "e">>,
       <<"m", "a", "n", "-", "j", "a", "c", "k", "e", "t", "s">>,
       <<"m", "a", "n", "-", "s", "a", "l", "e">>,
       <<"k", "i", "d", "s", "-", "p", "r", "e", "t", "e", "e", "n">>,
       <<"k", "i", "d", "s", "-", "a", "c", "c", "e", "s", "s", "o", "r", "i", "e", "s">>,
       <<"5", "0", "t", "h", "-", "a", "n", "n", "i", "v", "e", "r", "s", "a", "r", "y">> >>

\* The keywords of line 455.
ExcludedKeywords == { <<"k", "i", "d", "s">>,
                      <<"5", "0", "t", "h", "-", "a", "n", "n", "i", "v", "e", "r", "s", "a", "r", "y">> }

\* not any(keyword in category['name'] for keyword in [...])
IsAdultCategory(name) == ~(\E keyword \in ExcludedKeywords : Contains(name, keyword))

\* The loop of get_adult_categories_only over a list: append what passes.
RECURSIVE AdultOf(_)
AdultOf(all) ==
    IF all = << >> THEN << >>
    ELSE IF IsAdultCategory(all[1])
         THEN <<all[1]>> \o AdultOf(Tail(all))
         ELSE AdultOf(Tail(all))

GetAdultCategoriesOnly == AdultOf(ZaraCategoriesEn)

\* The options the main block looks for in sys.argv.
CliOptions == {"--resume", "-r", "--test", "-t", "--adults", "-a"}

\* Line 579: '--adults' in sys.argv or '-a' in sys.argv or True.
AdultsOnly(argv) == ("--adults" \in argv) \/ ("-a" \in argv) \/ TRUE

\* [:3] of the test branch.
FirstThree(q) == SubSeq(q, 1, IF Len(q) < 3 THEN Len(q) ELSE 3)

CliIdle ==
    /\ cli_pc = "off"
    /\ cli_argv = {}
    /\ cli_mode = "none"
    /\ cli_categories = << >>
    /\ cli_resume = FALSE

\* The script is started with some of its options.
CliInit ==
    /\ cli_pc = "start"
    /\ cli_argv \in SUBSET CliOptions
    /\ cli_mode = "none"
    /\ cli_categories = << >>
    /\ cli_resume = FALSE

\* Lines 577-626: the options are read and one branch picks the categories
\* and the resume argument.
CliMain ==
    /\ cli_pc = "start"
    /\ LET resume == ("--resume" \in cli_argv) \/ ("-r" \in cli_argv)
           test_mode == ("--test" \in cli_argv) \/ ("-t" \in cli_argv)
           adults_only == AdultsOnly(cli_argv)
       IN IF test_mode
          THEN /\ cli_mode' = "test"
               /\ cli_categories' = FirstThree(GetAdultCategoriesOnly)
               /\ cli_resume' = FALSE
          ELSE IF adults_only
          THEN /\ cli_mode' = "adults"
               /\ cli_categories' = GetAdultCategoriesOnly
               /\ cli_resume' = resume
          ELSE /\ cli_mode' = "all"
               /\ cli_categories' = ZaraCategoriesEn
               /\ cli_resume' = resume
    /\ cli_pc' = "chosen"
    /\ UNCHANGED <<cli_argv, besideCli>>

\* The categories are parsed and the results saved (lines 628-638).
CliFinish ==
    /\ cli_pc = "chosen"
    /\ cli_pc' = "done"
    /\ UNCHANGED <<cli_argv, cli_mode, cli_categories, cli_resume, besideCli>>

CliNext == CliMain \/ CliFinish

(***************************************************************************)
(* Specifications                                                          *)
(***************************************************************************)
\* Every later component at rest.
LateIdle == FetchIdle /\ ProductIdle /\ ZaraIdle /\ ProxyIdle /\ UrlIdle /\ CliIdle

RestIdle == StoreIdle /\ PipeIdle /\ ApiIdle /\ LateIdle

CoreIdle ==
    NavIdle /\ MainIdle /\ ScrollIdle /\ MultiIdle /\ ExtractIdle /\ FileIdle

InitNav ==
    NavIdle /\ MainIdle /\ ScrollIdle /\ MultiIdle /\ ExtractIdle /\ FileIdle
    /\ RestIdle

SpecNav == InitNav /\ [][NavNext]_vars

InitMain ==
    MainInit /\ NavIdle /\ ScrollIdle /\ MultiIdle /\ ExtractIdle /\ FileIdle
    /\ RestIdle

SpecMain == InitMain /\ [][MainNext]_vars

InitScroll ==
    ScrollInit /\ NavIdle /\ MainIdle /\ MultiIdle /\ ExtractIdle /\ FileIdle
    /\ RestIdle

SpecScroll == InitScroll /\ [][ScrollNext]_vars

InitMulti ==
    MultiInit /\ NavIdle /\ MainIdle /\ ScrollIdle /\ ExtractIdle /\ FileIdle
    /\ RestIdle

SpecMulti == InitMulti /\ [][MultiNext]_vars

InitExtract ==
    ExtractInit /\ NavIdle /\ MainIdle /\ ScrollIdle /\ MultiIdle /\ FileIdle
    /\ RestIdle

SpecExtract == InitExtract /\ [][ExtractNext]_vars

InitFile ==
    FileInit /\ NavIdle /\ MainIdle /\ ScrollIdle /\ MultiIdle /\ ExtractIdle
    /\ RestIdle

SpecFile == InitFile /\ [][FileNext]_vars

InitStore == StoreInit /\ CoreIdle /\ PipeIdle /\ ApiIdle /\ LateIdle

SpecStore == InitStore /\ [][StoreNext]_vars

InitPipe == PipeInit /\ CoreIdle /\ StoreIdle /\ ApiIdle /\ LateIdle

SpecPipe == InitPipe /\ [][PipeNext]_vars

InitApi == ApiInit /\ CoreIdle /\ StoreIdle /\ PipeIdle /\ LateIdle

SpecApi == InitApi /\ [][ApiNext]_vars

\* Every component before the API pipeline of main_zara.py at rest.
EarlyIdle == CoreIdle /\ StoreIdle /\ PipeIdle /\ ApiIdle

InitFetch == FetchInit /\ EarlyIdle /\ ProductIdle /\ ZaraIdle /\ ProxyIdle /\ UrlIdle /\ CliIdle

SpecFetch == InitFetch /\ [][FetchNext]_vars

InitProduct == ProductInit /\ EarlyIdle /\ FetchIdle /\ ZaraIdle /\ ProxyIdle /\ UrlIdle /\ CliIdle

SpecProduct == InitProduct /\ [][ProductNext]_vars

InitZara == ZaraInit /\ EarlyIdle /\ FetchIdle /\ ProductIdle /\ ProxyIdle /\ UrlIdle /\ CliIdle

SpecZara == InitZara /\ [][ZaraNext]_vars

InitProxy == ProxyInit /\ EarlyIdle /\ FetchIdle /\ ProductIdle /\ ZaraIdle /\ UrlIdle /\ CliIdle

SpecProxy == InitProxy /\ [][ProxyNext]_vars

InitUrl == UrlInit /\ EarlyIdle /\ FetchIdle /\ ProductIdle /\ ZaraIdle /\ ProxyIdle /\ CliIdle

SpecUrl == InitUrl /\ [][UrlNext]_vars

InitCli == CliInit /\ EarlyIdle /\ FetchIdle /\ ProductIdle /\ ZaraIdle /\ ProxyIdle /\ UrlIdle

SpecCli == InitCli /\ [][CliNext]_vars

\* Every component at once: any of them may take the next step.
Init ==
    NavIdle /\ MainInit /\ ScrollInit /\ MultiInit /\ ExtractInit /\ FileInit
    /\ StoreInit /\ PipeInit /\ ApiInit /\ FetchInit
    /\ ProductInit /\ ZaraInit /\ ProxyInit /\ UrlInit /\ CliInit

Next ==
    NavNext \/ MainNext \/ ScrollNext \/ MultiNext \/ ExtractNext \/ FileNext
    \/ StoreNext \/ PipeNext \/ ApiNext \/ FetchNext
    \/ ProductNext \/ ZaraNext \/ ProxyNext \/ UrlNext \/ CliNext

Spec == Init /\ [][Next]_vars

(***************************************************************************)
(* Claims about the Navigation Guard                                       *)
(***************************************************************************)
GoodPage == Answer(FALSE, 200, TRUE, TRUE)

RateLimited == Answer(FALSE, 429, TRUE, TRUE)

Succeeds(a) == AttemptBranch(nav_iface, nav_paged, a) = "success"

\* The sleeps of the retry loop itself (the pre-request delay left out).
LoopSleeps == SelectSeq(nav_sleeps, LAMBDA sl : sl[1] # "request_delay")

\* The script answers 429 n times and then serves a good page with status 200.
ScriptIs429sThen200(n) ==
    /\ n + 1 <= Len(nav_script)
    /\ \A i \in 1..n : nav_script[i] = RateLimited
    /\ nav_script[n + 1] = GoodPage

\* C2: safe_goto makes at most 3 navigation attempts per call; it returns
\* true at the first attempt that succeeds (status below 400 or no response
\* object, redirect check passed, readiness marker seen) and makes no
\* further attempt; if no attempt succeeds it returns false; it never
\* raises to the caller.
C2_SafeGotoBounded ==
    /\ Len(nav_log) <= 3
    /\ nav_result # "raised"
    /\ \A i \in 1..Len(nav_log) :
          Succeeds(nav_log[i]) =>
             /\ i = Len(nav_log)
             /\ nav_pc = "returned"
             /\ nav_result = "true"
    /\ (nav_result = "true") => (nav_log # << >> /\ Succeeds(Last(nav_log)))
    /\ (nav_pc = "returned" /\ \A i \in 1..Len(nav_log) : ~Succeeds(nav_log[i]))
          => nav_result = "false"
    /\ (nav_pc = "loop") => (nav_result = "none" /\ Len(nav_log) < 3)

\* C2 witness: a call whose third attempt is the first to succeed.
C2_Witness ==
    /\ nav_pc = "returned"
    /\ Len(nav_log) = 3
    /\ nav_result = "true"
    /\ ~Succeeds(nav_log[1]) /\ ~Succeeds(nav_log[2])

LandedElsewhere(a) == ~a.raises /\ a.status < 400 /\ ~a.items

\* The answer is an HTTP error other than 429.
HttpError(a) == ~a.raises /\ a.status >= 400 /\ a.status # 429

\* The answer is a 429 response.
Is429(a) == ~a.raises /\ a.status = 429

\* The attempt fails by exception: the navigation raises, or (farfetch) the
\* page loads, passes the redirect check, and the readiness marker times out.
FailsByException(a) ==
    \/ a.raises
    \/ /\ nav_iface = "farfetch"
       /\ a.status < 400
       /\ (a.items \/ ~nav_paged)
       /\ ~a.marker

\* C12: in PlaywrightInterface.safe_goto a request for a URL with "page="
\* that lands on a URL without "items.aspx" makes the call return false on
\* that very attempt, whichever attempt it is: it is the last navigation,
\* and nothing is slept after it.
C12_RedirectNotRetried ==
    (nav_pc \in {"loop", "returned"} /\ nav_iface = "farfetch" /\ nav_paged) =>
       \A i \in 1..Len(nav_log) :
          LandedElsewhere(nav_log[i]) =>
             /\ i = Len(nav_log)
             /\ nav_pc = "returned"
             /\ nav_result = "false"
             /\ Len(LoopSleeps) = i - 1

\* C12 witness: the second attempt, after a failed first one, lands
\* elsewhere and the call has returned false.
C12_Witness ==
    /\ nav_pc = "returned"
    /\ nav_iface = "farfetch"
    /\ nav_paged
    /\ Len(nav_log) = 2
    /\ FailsByException(nav_log[1])
    /\ LandedElsewhere(nav_log[2])
    /\ nav_result = "false"

C14_RateLimitWaitsAndRetries ==
    (nav_pc \in {"loop", "returned"}) =>
       \A i \in 1..Len(nav_log) :
          Is429(nav_log[i]) =>
             /\ Len(LoopSleeps) >= i
             /\ LoopSleeps[i] = <<"rate_limit", RateLimitWait>>
             /\ (nav_pc = "returned" /\ i = Len(nav_log)) =>
                   (i = max_retries /\ nav_result = "false")
             /\ (i < max_retries) => (nav_pc = "loop" \/ i < Len(nav_log))

\* C14 witness: three 429 answers used up the budget and false is returned.
C14_Witness ==
    /\ nav_pc = "returned"
    /\ Len(nav_log) = 3
    /\ \A i \in 1..3 : Is429(nav_log[i])
    /\ nav_result = "false"
    /\ Len(LoopSleeps) = 3

\* C15: an attempt k (1, 2) that fails by exception is followed by a
\* backoff of 5 x k seconds and then by attempt k + 1; a third attempt that
\* fails by exception is followed by no sleep and false is returned.
C15_LinearBackoff ==
    (nav_pc \in {"loop", "returned"}) =>
       \A k \in 1..Len(nav_log) :
          FailsByException(nav_log[k]) =>
             IF k < max_retries
             THEN /\ Len(LoopSleeps) >= k
                  /\ LoopSleeps[k] = <<"backoff", 5 * k>>
                  /\ (nav_pc = "loop" \/ k < Len(nav_log))
             ELSE /\ Len(LoopSleeps) = k - 1
                  /\ nav_pc = "returned"
                  /\ nav_result = "false"

\* C15 witness: three attempts failed by exception, 5 s and 10 s were slept
\* between them, and false is returned.
C15_Witness ==
    /\ nav_pc = "returned"
    /\ Len(nav_log) = 3
    /\ \A k \in 1..3 : FailsByException(nav_log[k])
    /\ LoopSleeps = << <<"backoff", 5>>, <<"backoff", 10>> >>
    /\ nav_result = "false"

(***************************************************************************)
(* Claims about the numbered-page orchestrator                             *)
(***************************************************************************)
\* The category whose page loop the log `fetched` belongs to.
LoggedCat == IF left_by \in {"break", "exhausted"} THEN cat - 1 ELSE cat

\* Pages s..s+4 exist and are all empty.
EmptyRunAt(s) ==
    /\ s >= 1
    /\ s + 4 <= pages
    /\ \A p \in s..(s + 4) : site_empty[p]

\* The start of the first run of 5 consecutive empty pages, 0 if there is none.
FirstEmptyRun ==
    IF \E s \in 1..pages : EmptyRunAt(s)
    THEN CHOOSE s \in 1..pages : EmptyRunAt(s) /\ \A t \in 1..(s - 1) : ~EmptyRunAt(t)
    ELSE 0

\* The page the claim says is fetched last.
ExpectedLastPage == IF FirstEmptyRun = 0 THEN pages ELSE FirstEmptyRun + 4

\* The number of empty pages at the end of the fetched log.
TrailingEmpty ==
    LET n == Len(fetched)
        AllEmptyFrom(k) == \A i \in (n - k + 1)..n : site_empty[fetched[i]]
    IN CHOOSE k \in 0..n : AllEmptyFrom(k) /\ (k < n => ~site_empty[fetched[n - k]])

\* C1: an exception raised while one category is processed (fetching,
\* extraction, persistence to file or document store) is caught; the
\* remaining categories are still processed and the run does not abort.
\* Stated for main.py's run_scrapper: when it ends, it ends at the end of
\* the category list.
C1_RunNeverAborts ==
    (m_pc \in {"done", "aborted"}) =>
       (m_pc = "done" /\ cat = Len(categories) + 1)

\* C4: the consecutive-empty-pages counter goes up by one with each page
\* without links and back to 0 with each page that has links (so it is the
\* length of the run of empty pages that ends the log); when it reaches 5
\* the page loop is left at once, nothing more is fetched or saved for the
\* category, and the traversal is at the next category.
C4_EmptyCounter ==
    (m_pc # "off") =>
       /\ consecutive_empty_pages = TrailingEmpty
       /\ consecutive_empty_pages <= 5
       /\ (consecutive_empty_pages = 5) <=> (left_by = "break")
       /\ (left_by = "break") =>
             /\ m_pc \in {"category", "done"}
             /\ cat = LoggedCat + 1
             /\ site_empty[Last(fetched)]
             /\ \A i \in 1..Len(file) :
                   file[i].url[1] = LoggedCat => file[i].url[2] < Last(fetched)
       /\ (m_pc = "pages") => consecutive_empty_pages < 5

\* C4 witness: a page with links reset the counter, the five empty pages
\* after it ended the category with pages left over, and the traversal
\* stands at the second category.
C4_Witness ==
    /\ m_pc = "category"
    /\ cat = 2
    /\ left_by = "break"
    /\ Len(fetched) = 6
    /\ ~site_empty[1]
    /\ pages > 6
    /\ consecutive_empty_pages = 5

\* C5: the pages of a category are fetched in ascending order, once each;
\* if the first run of 5 consecutive empty pages starts at page s the last
\* page fetched is s+4, and if there is no such run it is page N.
C5_StopPage ==
    (m_pc # "off") =>
       /\ \A i \in 1..Len(fetched) : fetched[i] = i
       /\ Len(fetched) <= ExpectedLastPage
       /\ (left_by # "none") => Len(fetched) = ExpectedLastPage

\* The stop rule of C5 in the traversals that no exception cuts short.
C5_StopPageUncut ==
    (m_pc # "off") =>
       /\ \A i \in 1..Len(fetched) : fetched[i] = i
       /\ Len(fetched) <= ExpectedLastPage
       /\ (left_by \in {"break", "exhausted"}) => Len(fetched) = ExpectedLastPage

\* The listing page could not be loaded, or its label is absent, empty or
\* not of the form "<page> из <count>".
UnusableListing(l) ==
    \/ ~l.loaded
    \/ ~l.label.present
    \/ Len(l.label.parts) < 2
    \/ ~l.label.parts[2].numeric

\* C17: for a category whose listing page cannot be loaded or whose
\* pagination label is absent or not parseable, get_number_of_pages gives 0
\* without raising; no page of the category is fetched, no record of it is
\* in the file or the document store, and the run goes on to the next
\* category.
C17_NoPagesCategorySkipped ==
    (m_pc \in {"pages", "category", "done"} /\ (m_pc = "pages" \/ left_by # "none")
        /\ UnusableListing(listing)) =>
       /\ pages = 0
       /\ fetched = << >>
       /\ \A i \in 1..Len(file) : file[i].url[1] # LoggedCat
       /\ \A u \in mongo : u[1] # LoggedCat
       /\ (m_pc = "pages") => (page > pages)
       /\ (m_pc \in {"category", "done"}) =>
             (left_by = "exhausted" /\ cat = LoggedCat + 1)

\* C17 witness: the first category's listing loaded with a label that holds
\* no number; nothing was fetched and the run is at the second category.
C17_Witness ==
    /\ m_pc = "category"
    /\ cat = 2
    /\ listing.loaded
    /\ listing.label.present
    /\ Len(listing.label.parts) = 2
    /\ ~listing.label.parts[2].numeric
    /\ fetched = << >>
    /\ file = << >>

(***************************************************************************)
(* Claims about the infinite-scroll loader                                 *)
(***************************************************************************)
\* C6: if the DOM shows no new distinct link after scroll iteration k, the
\* loader runs at most k + 5 iterations (so at no moment has it run more
\* than 5 iterations past the last one that showed a new link), and the
\* list it returns has at most items_limit links.
C6_TerminatesWithinK5 ==
    (s_pc # "off") =>
       /\ scrolls <= last_new + 5
       /\ (s_pc = "returned") => Cardinality(s_result) <= items_limit

\* The bound of C6 for a DOM that never drops a link it has shown.
C6_WithinK5IfDomOnlyGrows ==
    (s_pc # "off" /\ ~dom_shrank) => scrolls <= last_new + 5

\* The second half of C6 alone: never more than items_limit links returned.
C6_AtMostLimit ==
    (s_pc = "returned") => Cardinality(s_result) <= items_limit

\* C18: during one traversal the link set held never shrinks: what is held
\* after a scroll iteration contains what was held before it, whatever the
\* DOM shows.
C18_LinksNeverShrink ==
    [][(s_pc = "loop") => (all_links \subseteq all_links')]_vars

\* C18 for a DOM that keeps every product element it has shown.
C18_NeverShrinkIfDomOnlyGrows ==
    [][(s_pc = "loop" /\ ~dom_shrank') => (all_links \subseteq all_links')]_vars

(***************************************************************************)
(* Claims about the checkpointed multi-category run                        *)
(***************************************************************************)
RECURSIVE SumSeq(_)
SumSeq(q) == IF q = << >> THEN 0 ELSE q[1] + SumSeq(Tail(q))

\* C7: a run resumed from a checkpoint with current_index = c and P
\* products over n categories processes the 0-based positions c..n-1, in
\* order and once each, none below c, keeps the P restored products in
\* front, and returns P plus the number of products it found.
C7_ResumeCorrect ==
    (mc_pc \in {"running", "returned"} /\ mc_resumed /\ ckpt_at_start.exists) =>
       LET c == ckpt_at_start.current_index
           P == Len(ckpt_at_start.products)
           n == Len(ckpt_at_start.categories)
       IN /\ \A j \in 1..Len(processed) : processed[j] = c + j - 1
          /\ Len(processed) = mc_i - c
          /\ Len(all_products) = P + SumSeq(found)
          /\ SubSeq(all_products, 1, P) = ckpt_at_start.products
          /\ (mc_pc = "returned") => (Len(processed) = n - c)

\* C7 witness: a run resumed at position 1 of 3 with restored products has
\* processed positions 1 and 2, found products there, and returned.
C7_Witness ==
    /\ mc_pc = "returned"
    /\ mc_resumed
    /\ ckpt_at_start.exists
    /\ ckpt_at_start.current_index = 1
    /\ Len(mc_categories) = 3
    /\ Len(restored) >= 1
    /\ processed = <<1, 2>>
    /\ SumSeq(found) >= 1

\* C8: after every category processed (with products, without, or with an
\* exception) the checkpoint file holds exactly current_index = i + 1, the
\* category list and the full accumulated product list, and nothing of the
\* checkpoint before it.
C8_CheckpointEveryCategory ==
    (mc_pc \in {"running", "returned"} /\ processed # << >>) =>
       ckpt = [exists |-> TRUE,
               current_index |-> Last(processed) + 1,
               categories |-> mc_categories,
               products |-> all_products]

\* C8 witness: the three kinds of category in one run, the last one raising,
\* and the checkpoint written after it.
C8_Witness ==
    /\ mc_pc = "running"
    /\ outcomes = <<"products", "none", "raised">>
    /\ ckpt.current_index = 3
    /\ ckpt.products = all_products
    /\ Len(all_products) >= 1

(***************************************************************************)
(* Claims about the extractor loops and the file store                     *)
(***************************************************************************)
\* A reference fails extraction: failed navigation or an exception in the
\* browser path; a non-product entry or an exception in the API path.
FailsExtraction(r) ==
    IF ex_path = "browser"
    THEN ~r.nav \/ ~r.images
    ELSE r.type # "Product" \/ r.kind = "Marketing" \/ ~r.wellformed

\* The positions among the first n references that do not fail, ascending.
RECURSIVE GoodPositions(_)
GoodPositions(n) ==
    IF n = 0 THEN << >>
    ELSE IF FailsExtraction(ex_refs[n])
         THEN GoodPositions(n - 1)
         ELSE Append(GoodPositions(n - 1), n)

FailedAmong(n) == Cardinality({j \in 1..n : FailsExtraction(ex_refs[j])})

\* C9: of N references of which M fail extraction the loop returns exactly
\* N - M records, those of the references that do not fail, in order; a
\* failing reference yields no record and the references after it are
\* still gone through.
C9_ExtractorYieldsNMinusM ==
    (ex_pc # "off") =>
       /\ Len(ex_data) = ex_i - FailedAmong(ex_i)
       /\ [j \in 1..Len(ex_data) |-> ex_data[j].url] = GoodPositions(ex_i)
       /\ (ex_pc = "returned") => (ex_i = Len(ex_refs))

\* C9 witness: a list of three whose first reference fails and whose later
\* ones do not has been gone through, and two records are returned.
C9_Witness ==
    /\ ex_pc = "returned"
    /\ Len(ex_refs) = 3
    /\ FailsExtraction(ex_refs[1])
    /\ ~FailsExtraction(ex_refs[2])
    /\ ~FailsExtraction(ex_refs[3])
    /\ Len(ex_data) = 2

RECURSIVE Concat(_)
Concat(qs) == IF qs = << >> THEN << >> ELSE qs[1] \o Concat(Tail(qs))

\* C10: after any sequence of save_to_file calls the file holds the records
\* that were in it before the first call (none if it was missing) followed
\* by the records of every call in call order.
C10_ReadMergeWrite ==
    (fs_calls # << >>) =>
       /\ fs_file.exists
       /\ fs_file.records = fs_initial \o Concat(fs_calls)

\* C10 witness: the file held a record, and two calls that each carried a
\* record have been made.
C10_Witness ==
    /\ fs_initial # << >>
    /\ Len(fs_calls) >= 2
    /\ fs_calls[1] # << >>
    /\ fs_calls[2] # << >>
    /\ Len(fs_file.records) >= 3

(***************************************************************************)
(* Claims about the document store                                         *)
(***************************************************************************)
\* C11: after the orchestrator's create_collection step, a url that has
\* been inserted (once or more) is held by exactly one stored document, and
\* an insert of a url already stored is a duplicate-key condition that
\* insert_data catches.
C11_OneDocumentPerUrl ==
    (db_pc = "ready") =>
       /\ \A u \in Range(db_inserts) : CountOf(db_docs, u) = 1
       /\ \A u \in Urls : (CountOf(db_inserts, u) >= 2) => (db_dup_caught >= 1)

\* C11 where the collection has its unique index: one document per url
\* and the repeated insert caught.
C11_OneDocumentPerUrlIfIndexed ==
    (db_pc = "ready" /\ db_indexed) =>
       /\ \A u \in Range(db_inserts) : CountOf(db_docs, u) = 1
       /\ \A u \in Urls : (CountOf(db_inserts, u) >= 2) => (db_dup_caught >= 1)

(***************************************************************************)
(* Claims about the rate-limit delay in the browser pipeline               *)
(***************************************************************************)
IsGoto(e) == e.kind = "goto"

\* C16: between a navigation and the next navigation to another URL there
\* is a request_delay sleep, whichever of get_number_of_pages, get_elements
\* and parse_elements issues them.
C16_DelayBeforeEveryNavigation ==
    \A i, j \in 1..Len(pl_trace) :
       ( /\ i < j
         /\ IsGoto(pl_trace[i])
         /\ IsGoto(pl_trace[j])
         /\ pl_trace[i].url # pl_trace[j].url
         /\ \A k \in (i + 1)..(j - 1) : ~IsGoto(pl_trace[k]) )
       => \E k \in (i + 1)..(j - 1) : pl_trace[k] = DelayEvent

\* C16 for the navigations of parse_elements after its first one, and for
\* those of get_number_of_pages and get_elements: each new URL is loaded
\* after a request_delay sleep.
C16_DelayExceptFirstProduct ==
    \A i, j \in 1..Len(pl_trace) :
       ( /\ i < j
         /\ IsGoto(pl_trace[i])
         /\ IsGoto(pl_trace[j])
         /\ pl_trace[i].url # pl_trace[j].url
         /\ \A k \in (i + 1)..(j - 1) : ~IsGoto(pl_trace[k])
         /\ ~(pl_trace[j].url[1] = "product" /\ pl_trace[j].url[3] = 0) )
       => \E k \in (i + 1)..(j - 1) : pl_trace[k] = DelayEvent

(***************************************************************************)
(* Claims about the API fetch of zara_parser/api.py                        *)
(***************************************************************************)
\* The lookup response has no category, or its first category has no id.
NoCategoryOrNoId(info) ==
    \/ ~info.has_categories
    \/ info.categories = << >>
    \/ ~info.categories[1].has_id

\* C19: when the category lookup answers without a category, or with a
\* first category that has no id, get_category_products returns the empty
\* list and the product-listing endpoint is never requested.
C19_NoIdNoListingCall ==
    (api_info.ok /\ NoCategoryOrNoId(api_info.body)) =>
       /\ api_pc = "returned"
       /\ api_result = << >>
       /\ \A i \in 1..Len(api_calls) : api_calls[i] # "products"

\* C19 witness: the lookup failed once, then answered with a category that
\* has no id, and [] is returned after two requests to the lookup endpoint.
C19_Witness ==
    /\ api_pc = "returned"
    /\ api_info.ok
    /\ api_info.body.categories # << >>
    /\ ~api_info.body.categories[1].has_id
    /\ api_calls = <<"categories", "categories">>
    /\ api_result = << >>

FailuresIn(q) == Cardinality({i \in 1..Len(q) : ~q[i].ok})

\* C20: _retry_request calls the wrapped function at most 3 times; the
\* first call that succeeds ends it and its value is returned; 5 seconds
\* are slept after each of the first two failures; the third failure is
\* re-raised with nothing slept after it.
C20_RetryThreeTimesFixedWait ==
    (rr_state # "idle") =>
       /\ Len(rr_answers) <= 3
       /\ \A i \in 1..Len(rr_answers) :
             rr_answers[i].ok =>
                /\ i = Len(rr_answers)
                /\ rr_state = "returned"
                /\ rr_value = << rr_answers[i].body >>
       /\ rr_sleeps = [i \in 1..(IF FailuresIn(rr_answers) < 2
                                 THEN FailuresIn(rr_answers) ELSE 2) |-> 5]
       /\ (FailuresIn(rr_answers) = 3) <=> (rr_state = "raised")
       /\ (rr_state = "running") =>
             (Len(rr_answers) < 3 /\ FailuresIn(rr_answers) = Len(rr_answers))

\* C20 witness: two failures, then a call that succeeds, and its value is
\* returned after two waits.
C20_Witness ==
    /\ rr_state = "returned"
    /\ Len(rr_answers) = 3
    /\ ~rr_answers[1].ok /\ ~rr_answers[2].ok /\ rr_answers[3].ok
    /\ Len(rr_sleeps) = 2

\* Three failures in a row: the last one is re-raised after two waits.
C20_WitnessRaised ==
    /\ rr_state = "raised"
    /\ FailuresIn(rr_answers) = 3
    /\ Len(rr_sleeps) = 2

(***************************************************************************)
(* Claims about zara_api_parser's get_category_products                    *)
(***************************************************************************)
\* C21: a category fetch that is given up with zero products after a
\* transient failure of the listing request (timeout, connection error,
\* non-2xx status) has by then sent that request as many times as the
\* attempt budget of 3.
C21_FetchRetriesBeforeGivingUp ==
    (zf_pc = "returned" /\ ~zf_reply.ok) =>
        /\ zf_result = << >>
        /\ CountOf(zf_requests, "products") = api_max_retries

\* Every commercial component of the response, under either key.
AllComponents(data) ==
    IF ~data.has_groups THEN {}
    ELSE UNION { UNION { Range(item.commercialComponents) :
                           item \in Range(grp.elements) \cup Range(grp.products) } :
                 grp \in Range(data.productGroups) }

\* Response order: groups, then items, then components.
ComesBefore(p, q) ==
    \/ p[1] < q[1]
    \/ p[1] = q[1] /\ p[2] < q[2]
    \/ p[1] = q[1] /\ p[2] = q[2] /\ p[3] < q[3]

RealProducts(data) ==
    { x \in AllComponents(data) : x.type = "Product" /\ x.kind # "Marketing" }

\* The cap cut the list.
CapReached == ~zf_limit.is_none /\ zf_limit.n > 0 /\ Len(zf_result) = zf_limit.n

C23_CapBoundsResult ==
    (zf_pc = "returned" /\ zf_reply.ok) =>
        LET n == Cardinality(RealProducts(zf_reply.body)) IN
        IF zf_limit.is_none
        THEN Len(zf_result) = n
        ELSE /\ Len(zf_result) <= zf_limit.n
             /\ Len(zf_result) = (IF zf_limit.n < n THEN zf_limit.n ELSE n)

\* C23 for a cap of at least 1.
C23_CapBoundsResultFromOne ==
    (zf_pc = "returned" /\ zf_reply.ok /\ (zf_limit.is_none \/ zf_limit.n >= 1)) =>
        LET n == Cardinality(RealProducts(zf_reply.body)) IN
        IF zf_limit.is_none
        THEN Len(zf_result) = n
        ELSE Len(zf_result) = (IF zf_limit.n < n THEN zf_limit.n ELSE n)

(***************************************************************************)
(* Claims about zara_api_parser's parse_product                            *)
(***************************************************************************)
\* parse_product returned a record, not {}.
RecordReturned == pr_pc = "returned" /\ DOMAIN pr_record # {}

\* C24: for a raw product whose price is the integer p (minor units), the
\* record parse_product returns has price = p / 100, whatever price the
\* first color variant carries.
C24_PriceIsHundredth ==
    (RecordReturned /\ pr_data.price.present) =>
        /\ pr_record.price.den > 0
        /\ pr_record.price.num * 100 = pr_data.price.value * pr_record.price.den

\* The record of a product of 12990 minor units whose color variant has
\* another price of its own: the price is 129.9.
C24_Witness ==
    /\ RecordReturned
    /\ pr_data.price = Entry(TRUE, 12990)
    /\ pr_data.colors # << >>
    /\ pr_data.colors[1].price = Entry(TRUE, 500)
    /\ pr_record.price.num * 10 = 1299 * pr_record.price.den

\* C25: the url of every record parse_product returns is
\* https://www.zara.com/<country>/<lang>/<seo_keyword>-p<seo_product_id>.html?v1=<product_id>
\* where product_id is the seo discernProductId when the seo has one, and
\* the product's id otherwise.
C25_UrlTemplate ==
    RecordReturned =>
        /\ Len(pr_record.url) = 10
        /\ pr_record.url[1] = "https://www.zara.com/"
        /\ pr_record.url[2] = pr_country
        /\ pr_record.url[3] = "/"
        /\ pr_record.url[4] = pr_lang
        /\ pr_record.url[5] = "/"
        /\ pr_record.url[6] = pr_data.seo.keyword
        /\ pr_record.url[7] = "-p"
        /\ pr_record.url[8] = pr_data.seo.seoProductId
        /\ pr_record.url[9] = ".html?v1="
        /\ pr_record.url[10] = (IF pr_data.seo.discernProductId.present
                                THEN pr_data.seo.discernProductId.value
                                ELSE IF pr_data.id.present THEN pr_data.id.value
                                ELSE Null)

\* A record whose url ends in the discernProductId, which differs from the
\* product's id.
C25_Witness ==
    /\ RecordReturned
    /\ pr_data.seo.discernProductId = Entry(TRUE, "d7")
    /\ pr_data.id = Entry(TRUE, "101")
    /\ pr_record.url[10] = "d7"

\* A record of a product without discernProductId: the url ends in its id.
C25_WitnessOwnId ==
    /\ RecordReturned
    /\ ~pr_data.seo.discernProductId.present
    /\ pr_record.url[10] = "101"

(***************************************************************************)
(* Claims about main_zara.py's run over the categories                     *)
(***************************************************************************)
\* The positions in a fetched list whose product parse_product can map, in
\* reference order, as the urls of category c.
MappableRefs(c, products) ==
    LET positions == SelectSeq([j \in 1..Len(products) |-> j],
                               LAMBDA j : products[j].wellformed) IN
    [k \in 1..Len(positions) |-> <<c, positions[k]>>]

\* The categories left so far whose save_to_file went through.
FileSaved(c) == z_outcome[c] \in {"ok", "mongo_raises"}

UrlsOf(records) == [k \in 1..Len(records) |-> records[k].url]

C27_AtMostOneUnpersisted ==
    (z_pc = "parsing") => Len(z_parsed) <= 1

\* C30: every record handed to the file store or to the document store has
\* a url, whatever categories failed or succeeded before, and it is the url
\* of a fetched product that could be mapped: a product that yields no url
\* yields no record.
C30_EveryRecordHasUrl ==
    \A record \in Range(z_file) \cup Range(z_offered) :
        /\ "url" \in DOMAIN record
        /\ \E c \in 1..Len(z_fetched) :
               record.url \in Range(MappableRefs(c, z_fetched[c]))

\* A run with records in the file and offered to the store, after a
\* category that gave nothing and with a product that could not be mapped.
C30_Witness ==
    /\ z_pc = "done"
    /\ z_outcome[1] = "empty"
    /\ z_outcome[2] = "mongo_raises"
    /\ \E j \in 1..Len(z_fetched[2]) : ~z_fetched[2][j].wellformed
    /\ z_file # << >>
    /\ z_offered # << >>

(***************************************************************************)
(* Claims about a batch of records and duplicate keys                      *)
(***************************************************************************)
\* The records of the batch a step saves.
BatchSaved == SubSeq(db_inserts', Len(db_inserts) + 1, Len(db_inserts'))

\* C28: when a batch is saved, the file store takes every record of it,
\* duplicates included; in the document store a rejected record changes
\* nothing, and every record of the batch, also one that comes after a
\* rejected one, is stored afterwards; with the unique index the store
\* holds each url once while the file may hold it more often.
C28_DuplicateHandledPerRecord ==
    [][ (db_file' # db_file) =>
          /\ db_file' = db_file \o BatchSaved
          /\ SubSeq(db_docs', 1, Len(db_docs)) = db_docs
          /\ Len(db_docs') - Len(db_docs)
                 = Len(BatchSaved) - (db_dup_caught' - db_dup_caught)
          /\ Range(db_docs') = Range(db_docs) \cup Range(BatchSaved)
          /\ (db_indexed /\ NoRepeat(db_docs)) => NoRepeat(db_docs')
      ]_vars

\* A batch whose first record was rejected and whose second was stored: the
\* file holds u1 twice, the store once.
C28_Witness ==
    /\ db_indexed
    /\ db_dup_caught = 1
    /\ db_inserts = <<"u1", "u2">>
    /\ db_file = <<"u1", "u1", "u2">>
    /\ db_docs = <<"u1", "u2">>

(***************************************************************************)
(* Claims about single fields in parse_elements                            *)
(***************************************************************************)
\* The record parse_elements emitted for the link at position j, if any.
RecordsOfLink(j) == { k \in 1..Len(ex_data) : ex_data[k].url = j }

\* C29: in parse_elements, a product page that was loaded and on which the
\* extraction of one of images, price or short description fails still
\* yields its record, with null for a price or short description that
\* failed.
C29_FieldFailureKeepsRecord ==
    (ex_pc = "returned" /\ ex_path = "browser") =>
        \A j \in 1..Len(ex_refs) :
            ex_refs[j].nav =>
                \E k \in RecordsOfLink(j) :
                    /\ (~ex_refs[j].price) => (ex_data[k].price = Null)
                    /\ (~ex_refs[j].desc) => (ex_data[k].short_description = Null)

\* C29 for the price and the short description only.
C29_PriceOrDescriptionFailureKeepsRecord ==
    (ex_pc = "returned" /\ ex_path = "browser") =>
        \A j \in 1..Len(ex_refs) :
            (ex_refs[j].nav /\ ex_refs[j].images) =>
                \E k \in RecordsOfLink(j) :
                    /\ (~ex_refs[j].price) => (ex_data[k].price = Null)
                    /\ (~ex_refs[j].desc) => (ex_data[k].short_description = Null)

(***************************************************************************)
(* Claims about the proxy rotation manager                                 *)
(***************************************************************************)
\* The 0-based positions of the pool whose proxy next() found usable.
UsablePositions ==
    { i \in 0..(Len(px_proxies) - 1) : px_proxies[i + 1] \notin px_last.failed_before }

\* How far position i is after current_index, going round the pool.
StepsFrom(from, i) == (i - from + Len(px_proxies)) % Len(px_proxies)

\* C31: with a non-empty pool next() always returns a proxy of the pool;
\* while a proxy that is not blacklisted exists it returns the nearest such
\* proxy from current_index on, going round the pool, and never a
\* blacklisted one; when every proxy is blacklisted it clears the blacklist
\* and returns the first entry.
C31_NextRoundRobinFailOpen ==
    (px_last.called /\ px_proxies # << >>) =>
        /\ px_last.proxy \in Range(px_proxies)
        /\ IF UsablePositions = {}
           THEN /\ px_last.proxy = px_proxies[1]
                /\ px_last.failed_after = {}
           ELSE /\ px_last.proxy \notin px_last.failed_before
                /\ px_last.failed_after = px_last.failed_before
                /\ \E i \in UsablePositions :
                       /\ px_proxies[i + 1] = px_last.proxy
                       /\ \A j \in UsablePositions :
                              StepsFrom(px_last.index_before, i)
                                  <= StepsFrom(px_last.index_before, j)

\* next() skipped a blacklisted entry on its way round the pool.
C31_Witness ==
    /\ px_last.called
    /\ Len(px_proxies) = 3
    /\ px_last.failed_before = {px_proxies[2]}
    /\ px_last.index_before = 1
    /\ px_last.proxy = px_proxies[3]

\* next() met a pool whose every proxy was blacklisted.
C31_WitnessAllFailed ==
    /\ px_last.called
    /\ Len(px_proxies) = 3
    /\ px_last.failed_before = Range(px_proxies)
    /\ px_last.proxy = px_proxies[1]
    /\ px_last.failed_after = {}

(***************************************************************************)
(* Claims about the category id parse_category reads from the url          *)
(***************************************************************************)
\* C32: for a category url <slug>-l<id>.html without a v1 parameter,
\* parse_category goes on with <id> as the category id, whatever the slug,
\* also a slug that has "-l" in itself.
C32_IdAfterLastDashL ==
    (up_pc = "parsed" /\ ~up_url.v1.present) =>
        /\ up_result.found
        /\ up_result.category_id = up_url.id

\* C32 for the slugs that have no "-l" in themselves.
C32_IdWhenSlugHasNoDashL ==
    (up_pc = "parsed" /\ ~up_url.v1.present /\ ~Contains(up_url.slug, DashL)) =>
        /\ up_result.found
        /\ up_result.category_id = up_url.id

(***************************************************************************)
(* Claims about resume, the checkpoint and the category list               *)
(***************************************************************************)
\* C33: a run started with resume while there is no readable checkpoint
\* file starts from the beginning: by the time it returns it has processed
\* every position 0..n-1 of the list the caller passed, in order.
C33_ResumeWithoutCheckpointStartsOver ==
    (mc_pc = "returned" /\ mc_resumed /\ ~ckpt_at_start.exists) =>
       /\ mc_categories = passed
       /\ processed = [j \in 1..Len(passed) |-> j - 1]

\* What the code does in the case of C33: the caller's list is replaced by
\* the empty list load_progress returns, and no category is processed.
C33_ResumeWithoutCheckpointProcessesNothing ==
    (mc_pc \in {"running", "returned"} /\ mc_resumed /\ ~ckpt_at_start.exists) =>
       /\ mc_categories = << >>
       /\ processed = << >>
       /\ all_products = << >>

(***************************************************************************)
(* Claims about closing the browser                                        *)
(***************************************************************************)
\* C34: however run_scrapper ends once the browser is started (at the end
\* of the category list, after a category abandoned at the empty-page
\* threshold, or by an exception raised anywhere after the start), the
\* browser has been closed exactly once; and it is never closed more than
\* once.
C34_ClosedExactlyOnce ==
    /\ (m_pc \in {"done", "aborted"}) => closed = 1
    /\ (m_pc # "off") => closed <= 1

\* C34 for the ways run_scrapper ends after it has entered the try of line
\* 54: the finally clause has closed the browser exactly once.
C34_ClosedOnceInsideTry ==
    /\ (m_pc \in {"done", "aborted"} /\ left_by # "setup") => closed = 1
    /\ (m_pc \in {"started", "category", "pages"}) => closed = 0

(***************************************************************************)
(* Claims about the command line of the English-site parser                *)
(***************************************************************************)
\* The subsequence of a list made of the entries that contain neither
\* keyword, defined by positions.
KeptPositions(all) ==
    { j \in 1..Len(all) :
         /\ ~Contains(all[j], <<"k", "i", "d", "s">>)
         /\ ~Contains(all[j], <<"5", "0", "t", "h", "-", "a", "n", "n", "i", "v",
                                "e", "r", "s", "a", "r", "y">>) }

IsOrderedSelection(sel, all, pos) ==
    /\ Len(sel) = Cardinality(pos)
    /\ \A j \in 1..Len(sel) :
          \E k \in pos : /\ sel[j] = all[k]
                         /\ Cardinality({m \in pos : m < k}) = j - 1

\* C35: adults-only filtering is optional.  get_adult_categories_only
\* returns, in order, exactly the categories whose name contains neither
\* "kids" nor "50th-anniversary"; it is applied only when the adults option
\* is given; a run without that option and not in test mode parses the full
\* category list, children's and anniversary categories included.
C35_AdultsFilterIsOptional ==
    (cli_pc \in {"chosen", "done"}) =>
       LET adults == ("--adults" \in cli_argv) \/ ("-a" \in cli_argv)
           test == ("--test" \in cli_argv) \/ ("-t" \in cli_argv)
       IN /\ IsOrderedSelection(GetAdultCategoriesOnly, ZaraCategoriesEn,
                                KeptPositions(ZaraCategoriesEn))
          /\ (adults /\ ~test) => cli_categories = GetAdultCategoriesOnly
          /\ (~adults /\ ~test) => cli_categories = ZaraCategoriesEn

\* What the code does in the case of C35: whatever the options, the
\* categories parsed are the filtered ones (the first three of them in test
\* mode), and the filter is as C35 describes it.
C35_AdultsFilterAlwaysApplied ==
    (cli_pc \in {"chosen", "done"}) =>
       LET test == ("--test" \in cli_argv) \/ ("-t" \in cli_argv)
       IN /\ IsOrderedSelection(GetAdultCategoriesOnly, ZaraCategoriesEn,
                                KeptPositions(ZaraCategoriesEn))
          /\ cli_categories = IF test THEN FirstThree(GetAdultCategoriesOnly)
                                      ELSE GetAdultCategoriesOnly
          /\ cli_mode # "all"

(***************************************************************************)
(* Claims about the checkpoints of one run and the resume after an         *)
(* interruption                                                            *)
(***************************************************************************)
\* The records found by the first n categories this run has processed.
RECURSIVE FoundRecords(_)
FoundRecords(n) ==
    IF n = 0 THEN << >>
    ELSE FoundRecords(n - 1)
           \o CategoryProducts(mc_categories[processed[n] + 1], found[n])

\* The checkpoint this run has written last: its index is between 1 and the
\* number of categories, it is the position after the last one processed,
\* and its products are the restored ones followed by the records of the
\* categories this run has processed.
CheckpointOfRunWellFormed ==
    (mc_pc \in {"idle", "running", "returned"} /\ processed # << >>) =>
       /\ ckpt.exists
       /\ 1 <= ckpt.current_index
       /\ ckpt.current_index <= Len(ckpt.categories)
       /\ ckpt.current_index = start_index + Len(processed)
       /\ \A j \in 1..Len(processed) : processed[j] = start_index + j - 1
       /\ ckpt.products = restored \o FoundRecords(Len(processed))

\* A later write of the same run does not carry a smaller index.
CheckpointIndexStep ==
    (processed # << >> /\ processed' # processed /\ runs' = runs) =>
       ckpt'.current_index >= ckpt.current_index

\* A run was interrupted (it is idle with categories still ahead) and the
\* next run resumes.
ResumesAfterInterrupt ==
    /\ mc_pc = "idle"
    /\ runs >= 1
    /\ mc_pc' = "running"
    /\ mc_resumed'

\* The resumed run goes on where the interrupted one stood: same list, same
\* position (nothing skipped, nothing processed again), same accumulator
\* (no category's records added twice).
ResumeContinues ==
    /\ mc_categories' = mc_categories
    /\ mc_i' = mc_i
    /\ all_products' = all_products

\* C36: every checkpoint written by parse_multiple_categories has
\* 1 <= current_index <= number of categories, successive writes within a
\* run never decrease current_index, and its products are exactly the
\* records of the categories below current_index plus those restored on
\* resume; hence an interruption at any point followed by a resume neither
\* skips an unprocessed category nor adds a category's records twice.
C36_CheckpointsAndResume ==
    /\ []CheckpointOfRunWellFormed
    /\ [][CheckpointIndexStep /\ (ResumesAfterInterrupt => ResumeContinues)]_vars

\* The checkpoint part of C36 alone.
C36_CheckpointsWellFormed ==
    /\ []CheckpointOfRunWellFormed
    /\ [][CheckpointIndexStep]_vars

\* The resume part of C36 for an interruption of a run that has written a
\* checkpoint.
C36_ResumeAfterCheckpointWritten ==
    [][(ResumesAfterInterrupt /\ processed # << >>) => ResumeContinues]_vars

(***************************************************************************)
(* Claims about failed pages in the numbered-page traversal                *)
(***************************************************************************)
\* C37: a page whose navigation fails or whose link query raises is treated
\* as an empty page: get_elements returns the empty list for it, it is
\* counted by the consecutive-empty counter (which stays the length of the
\* run of pages without links that ends the log), and 5 failed pages in a
\* row leave the page loop by the break, with the traversal at the next
\* category, as 5 empty pages do.
C37_FailedPageCountsAsEmpty ==
    (m_pc # "off" /\ last_why \in FailureKinds) =>
       /\ GetElements(last_why, PageLinks(LoggedCat, Last(fetched))) = << >>
       /\ fail_run >= 1
       /\ consecutive_empty_pages >= fail_run
       /\ consecutive_empty_pages = TrailingEmpty
       /\ (left_by = "break") <=> (consecutive_empty_pages = 5)
       /\ (fail_run >= 5) =>
             /\ fail_run = 5
             /\ left_by = "break"
             /\ m_pc \in {"category", "done"}
             /\ cat = LoggedCat + 1
             /\ Len(fetched) = ExpectedLastPage

\* C37 witness: after a page with links, five pages in a row failed, the
\* last one by a raising link query, and the category was abandoned.
C37_Witness ==
    /\ m_pc = "category"
    /\ last_why = "query_raises"
    /\ fail_run = 5
    /\ consecutive_empty_pages = 5
    /\ left_by = "break"
    /\ Len(fetched) = 6
    /\ ~site_empty[1]
    /\ file # << >>

(***************************************************************************)
(* Claims about the category list of a resumed run                         *)
(***************************************************************************)
\* C38: a resumed run iterates the category list saved in the checkpoint,
\* not the list its caller passed: every position it processes is a
\* position of the saved list, and after an interruption it goes on in the
\* list of the interrupted run at the position that run had reached, even
\* if the caller passes a different list.
C38_ResumeUsesSavedList ==
    /\ []((mc_pc \in {"running", "returned"} /\ mc_resumed) =>
            /\ mc_categories = ckpt_at_start.categories
            /\ \A j \in 1..Len(processed) :
                  processed[j] + 1 \in 1..Len(ckpt_at_start.categories))
    /\ [][(ResumesAfterInterrupt /\ processed # << >>) =>
            /\ mc_categories' = mc_categories
            /\ mc_i' = mc_i]_vars

\* C38 witness: a run interrupted after the first of three categories is
\* resumed by a caller passing a list of two; the resumed run has processed
\* positions 1 and 2 of the saved list of three.
C38_Witness ==
    /\ mc_pc = "returned"
    /\ mc_resumed
    /\ ckpt_at_start.exists
    /\ ckpt_at_start.current_index = 1
    /\ Len(ckpt_at_start.categories) = 3
    /\ Len(passed) = 2
    /\ mc_categories # passed
    /\ processed = <<1, 2>>
    /\ outcomes[2] = "products"

(***************************************************************************)
(* Claims about exceptions in the infinite-scroll loader                   *)
(***************************************************************************)
\* C39: an exception raised inside a scroll iteration ends the loop without
\* leaving scroll_and_load_items as an exception: the call never ends
\* raised, and what it returns is the links held after the last completed
\* iteration, cut to items_limit.
C39_ScrollExceptionNeverPropagates ==
    /\ (s_pc # "off") => s_pc # "raised"
    /\ (s_pc = "returned") => s_result \in Truncations(all_links, items_limit)

\* C39 for an exception raised inside the try block (the query of the
\* headings): the iteration leaves the links held untouched and the call
\* returns them, cut to items_limit.
C39_QueryExceptionReturnsHeld ==
    /\ []((s_pc = "returned") => s_result \in Truncations(all_links, items_limit))
    /\ [][(s_pc = "loop" /\ scrolls' = scrolls + 1 /\ all_links' = all_links
             /\ previous_count' = previous_count
             /\ no_new_items_count' = no_new_items_count /\ s_pc' # "raised") =>
           (s_pc' = "returned" /\ s_result' \in Truncations(all_links, items_limit))]_vars

====
